---- MODULE Spec2Model ----
(***************************************************************************)
(* PlayWise music player (src/playWise.cpp): the doubly-linked playlist,   *)
(* the title index, the rating map, the playback history, the two bounded  *)
(* recency trackers, the playlist player, the auto-replay selector and the *)
(* auto-save that follows the menu operations.                             *)
(*                                                                         *)
(* A Song* is an address (a positive integer); NULL is 0.  `heap` is the   *)
(* set of addresses that hold a Song that was allocated and not deleted;   *)
(* `mem` gives the fields of the Song at each address.  operator new may   *)
(* return any address that holds no live Song, a freed one included.       *)
(***************************************************************************)
EXTENDS Integers, Sequences, FiniteSets, TLC

\* ------------------------------------------------------------------ bounds
MaxAddr == 2          \* addresses operator new can return: 1..MaxAddr
MaxSteps == 3         \* menu operations in one session
MaxTouches == 2       \* operations applied to a recency window
NumRefs == 16         \* distinct Song* values offered to the recency windows
MaxCat == 4           \* catalog length offered to the auto-replay selector
MaxNodes == 4         \* addresses of the playlist taken on its own: 1..MaxNodes
MaxListOps == 3       \* operations applied to the playlist taken on its own
MaxPlayerOps == 4     \* operations applied to the player taken on its own

\* -------------------------------------------------------- program constants
MAX_SKIPPED == 10
MAX_RECENT == 15
TOP_N == 3
RECENT_PLAYED_N == 5
RECENT_SHOWN == 10
MIN_RATING == 1
MAX_RATING == 5

NULL == 0
Addr == 1..MaxAddr

\* A string the code compares character by character is a tuple of characters.
Jazz == <<"J", "a", "z", "z">>
JAZZ == <<"J", "A", "Z", "Z">>
LoFi == <<"L", "o", "-", "F", "i">>
Rock == <<"R", "o", "c", "k">>

\* Titles, in the order of std::string's operator<.
TitleOrder == <<"a", "b", "c", "d", "e", "f", "g", "h">>
Titles == {"a", "b"}
Artists == {"x"}
Genres == {Jazz, Rock}
Durations == {200}

\* What a read through a dangling Song* can produce for a title.
Garbage == "?"
TitleRead == Titles \cup {Garbage}

VARIABLES
  head, tail,        \* Playlist::head, Playlist::tail
  mem,               \* the Song objects, by address
  heap,              \* addresses of the live Song objects
  history,           \* PlaybackHistory::history, top of the stack last
  ratingMap,         \* SongRatingTree::ratingMap
  lookup,            \* SongLookup::lookup
  playCounts,        \* main's playCounts
  skippedSongs,      \* RecentlySkippedTracker::skippedSongs, front first
  recentlyAdded,     \* RecentlyAddedTracker::recentlyAdded, front first
  currentIndex, isPlaying, currentSong,   \* PlaylistPlayer
  file,              \* playwise_data.txt
  lastOp,            \* the operation that produced this state, its arguments and result
  uaf,               \* a Song that was deleted has been read through a stale Song*
  touchTime,         \* for each window, when each Song* was last touched
  titleClash,        \* a song was added under a title a song of the playlist already had
  reader,            \* load_all_data's ifstream: the file's lines, the line getline reads
                     \* next, and `section`
  steps,             \* operations performed so far
  tally              \* the playlist's appends and removals so far, the songs still in it in
                     \* the order they were appended, and whether move or reverse was called

vars == <<head, tail, mem, heap, history, ratingMap, lookup, playCounts,
          skippedSongs, recentlyAdded, currentIndex, isPlaying, currentSong,
          file, lastOp, uaf, touchTime, titleClash, reader, steps, tally>>

\* ------------------------------------------------------------ sequences
Range(s) == {s[i] : i \in 1..Len(s)}

IndexOf(s, x) == IF x \in Range(s) THEN CHOOSE i \in 1..Len(s) : s[i] = x /\ \A j \in 1..(i-1) : s[j] # x ELSE 0

RemoveAt(s, i) == [j \in 1..(Len(s)-1) |-> IF j < i THEN s[j] ELSE s[j+1]]

Prefix(s, n) == [j \in 1..(IF n < Len(s) THEN (IF n < 0 THEN 0 ELSE n) ELSE Len(s)) |-> s[j]]

Reverse(s) == [j \in 1..Len(s) |-> s[Len(s) + 1 - j]]

NoDup(s) == \A i, j \in 1..Len(s) : s[i] = s[j] => i = j

\* ------------------------------------------------------------------ Song
Song(t, a, g, d) == [title |-> t, artist |-> a, genre |-> g, duration |-> d, prev |-> NULL, next |-> NULL]

\* What mem holds at an address with no live Song (its content is indeterminate
\* and is never used: every read through a dangling pointer is a free choice).
NoSong == [title |-> Garbage, artist |-> Garbage, genre |-> <<>>, duration |-> 0, prev |-> NULL, next |-> NULL]

\* ---------------------------------------------------------------- Playlist
\* A playlist value is [head, tail, mem, heap].
EmptyPlaylist == [head |-> NULL, tail |-> NULL, mem |-> [a \in Addr |-> NoSong], heap |-> {}]

\* add_song that links the new song before the head.
add_song_front(pl, a, title, artist, genre, duration) ==
  LET new_song == Song(title, artist, genre, duration)
  IN  IF pl.head = NULL
      THEN [pl EXCEPT !.head = a, !.tail = a, !.mem[a] = new_song, !.heap = @ \cup {a}]
      ELSE [pl EXCEPT !.mem = [@ EXCEPT ![pl.head].prev = a, ![a] = [new_song EXCEPT !.next = pl.head]],
                      !.head = a,
                      !.heap = @ \cup {a}]

\* add_song; `a` is the address operator new returned.
add_song(pl, a, title, artist, genre, duration) ==
  LET new_song == Song(title, artist, genre, duration)
  IN  IF pl.head = NULL
      THEN [pl EXCEPT !.head = a, !.tail = a, !.mem[a] = new_song, !.heap = @ \cup {a}]
      ELSE [pl EXCEPT !.mem = [@ EXCEPT ![pl.tail].next = a, ![a] = [new_song EXCEPT !.prev = pl.tail]],
                      !.tail = a,
                      !.heap = @ \cup {a}]

\* The walk that stops on the last song when the index is past the end.
RECURSIVE WalkClamp(_, _, _, _)
WalkClamp(m, temp, i, index) ==
  IF temp # NULL /\ i < index /\ m[temp].next # NULL THEN WalkClamp(m, m[temp].next, i + 1, index) ELSE temp

\* while (temp && i < index) { temp = temp->next; i++; }
RECURSIVE Walk(_, _, _, _)
Walk(m, temp, i, index) ==
  IF temp # NULL /\ i < index THEN Walk(m, m[temp].next, i + 1, index) ELSE temp

\* Unlink without `temp->next->prev = temp->prev`.
UnlinkNoPrev(pl, temp) ==
  LET m0 == pl.mem
      m1 == IF m0[temp].prev # NULL THEN [m0 EXCEPT ![m0[temp].prev].next = m0[temp].next] ELSE m0
      h  == IF temp = pl.head THEN m1[temp].next ELSE pl.head
      t  == IF temp = pl.tail THEN m1[temp].prev ELSE pl.tail
  IN  [pl EXCEPT !.mem = m1, !.head = h, !.tail = t]

\* Unlink without `if (temp == tail) tail = temp->prev`.
UnlinkKeepTail(pl, temp) ==
  LET m0 == pl.mem
      m1 == IF m0[temp].prev # NULL THEN [m0 EXCEPT ![m0[temp].prev].next = m0[temp].next] ELSE m0
      m2 == IF m1[temp].next # NULL THEN [m1 EXCEPT ![m1[temp].next].prev = m1[temp].prev] ELSE m1
      h  == IF temp = pl.head THEN m2[temp].next ELSE pl.head
  IN  [pl EXCEPT !.mem = m2, !.head = h]

\* The unlinking both delete_song and move_song perform on the node `temp`.
Unlink(pl, temp) ==
  LET m0 == pl.mem
      m1 == IF m0[temp].prev # NULL THEN [m0 EXCEPT ![m0[temp].prev].next = m0[temp].next] ELSE m0
      m2 == IF m1[temp].next # NULL THEN [m1 EXCEPT ![m1[temp].next].prev = m1[temp].prev] ELSE m1
      h  == IF temp = pl.head THEN m2[temp].next ELSE pl.head
      t  == IF temp = pl.tail THEN m2[temp].prev ELSE pl.tail
  IN  [pl EXCEPT !.mem = m2, !.head = h, !.tail = t]

delete_song(pl, index) ==
  IF pl.head = NULL THEN pl
  ELSE LET temp == Walk(pl.mem, pl.head, 0, index)
       IN  IF temp = NULL THEN pl
           ELSE LET u == Unlink(pl, temp)
                IN  [u EXCEPT !.mem[temp] = NoSong, !.heap = @ \ {temp}]

\* move_song that takes the song out and does not insert it again.
move_song_unlink_only(pl, from_index, to_index) ==
  IF from_index = to_index \/ pl.head = NULL THEN pl
  ELSE LET song_to_move == Walk(pl.mem, pl.head, 0, from_index)
       IN  IF song_to_move = NULL THEN pl
           ELSE LET u == Unlink(pl, song_to_move)
                IN  [u EXCEPT !.mem = [u.mem EXCEPT ![song_to_move].prev = NULL, ![song_to_move].next = NULL]]

move_song(pl, from_index, to_index) ==
  IF from_index = to_index \/ pl.head = NULL THEN pl
  ELSE LET song_to_move == Walk(pl.mem, pl.head, 0, from_index)
       IN  IF song_to_move = NULL THEN pl
           ELSE LET u  == Unlink(pl, song_to_move)
                    m  == [u.mem EXCEPT ![song_to_move].prev = NULL, ![song_to_move].next = NULL]
                    to == IF to_index > from_index THEN to_index - 1 ELSE to_index
                IN  IF to = 0
                    THEN [u EXCEPT !.mem = IF u.head # NULL
                                           THEN [m EXCEPT ![song_to_move].next = u.head, ![u.head].prev = song_to_move]
                                           ELSE m,
                                   !.head = song_to_move,
                                   !.tail = IF u.tail = NULL THEN song_to_move ELSE u.tail]
                    ELSE LET temp == Walk(m, u.head, 0, to - 1)
                         IN  IF temp = NULL
                             THEN IF u.tail # NULL
                                  THEN [u EXCEPT !.mem = [m EXCEPT ![u.tail].next = song_to_move, ![song_to_move].prev = u.tail],
                                                 !.tail = song_to_move]
                                  ELSE [u EXCEPT !.mem = m, !.head = song_to_move, !.tail = song_to_move]
                             ELSE LET after == m[temp].next
                                      m3 == [m EXCEPT ![song_to_move].next = after, ![song_to_move].prev = temp]
                                      m4 == IF after # NULL THEN [m3 EXCEPT ![after].prev = song_to_move] ELSE m3
                                  IN  [u EXCEPT !.mem = [m4 EXCEPT ![temp].next = song_to_move],
                                                !.tail = IF after # NULL THEN u.tail ELSE song_to_move]

\* The loop with `curr->next = curr->prev` in the place of the swap.
RECURSIVE ReverseLoopAssign(_, _)
ReverseLoopAssign(m, curr) ==
  IF curr = NULL THEN m
  ELSE LET m1 == [m EXCEPT ![curr].next = m[curr].prev]
       IN  ReverseLoopAssign(m1, m1[curr].prev)

\* while (curr) { swap(curr->next, curr->prev); curr = curr->prev; }
RECURSIVE ReverseLoop(_, _)
ReverseLoop(m, curr) ==
  IF curr = NULL THEN m
  ELSE LET m1 == [m EXCEPT ![curr].next = m[curr].prev, ![curr].prev = m[curr].next]
       IN  ReverseLoop(m1, m1[curr].prev)

\* reverse_playlist without swap(head, tail).
reverse_playlist_no_swap(pl) ==
  [pl EXCEPT !.mem = ReverseLoop(pl.mem, pl.head)]

reverse_playlist(pl) ==
  [pl EXCEPT !.mem = ReverseLoop(pl.mem, pl.head), !.head = pl.tail, !.tail = pl.head]

RECURSIVE Collect(_, _)
Collect(m, temp) == IF temp = NULL THEN <<>> ELSE <<temp>> \o Collect(m, m[temp].next)

get_all_songs(pl) == Collect(pl.mem, pl.head)

\* --------------------------------------------------------- PlaybackHistory
\* The song put under the stack in the place of history.push(song).
ph_add_bottom(h, song) == <<song>> \o h

ph_add(h, song) == Append(h, song)

\* The entry at the bottom of the stack taken in the place of history.top().
undo_last_play_bottom(h) ==
  IF h = <<>> THEN [song |-> NULL, history |-> h]
  ELSE [song |-> h[1], history |-> Tail(h)]

\* undo_last_play returns the popped Song* (NULL on an empty stack) and leaves the rest.
undo_last_play(h) ==
  IF h = <<>> THEN [song |-> NULL, history |-> h]
  ELSE [song |-> h[Len(h)], history |-> SubSeq(h, 1, Len(h) - 1)]

\* The top n entries of a copy of the stack, most recent first.
get_recently_played(h, n) == Prefix(Reverse(h), n)

\* ---------------------------------------------------------- SongRatingTree
\* std::map operator[]: the key is created, with an empty vector, when absent.
MapIndex(rm, rating) == IF rating \in DOMAIN rm THEN rm ELSE rm @@ (rating :> <<>>)

\* The song put at the front of the group in the place of push_back.
insert_song_front(rm, song, rating) ==
  [MapIndex(rm, rating) EXCEPT ![rating] = <<song>> \o @]

insert_song(rm, song, rating) ==
  [MapIndex(rm, rating) EXCEPT ![rating] = Append(@, song)]

\* search_by_rating returns ratingMap[rating] and leaves the map as operator[] leaves it.
search_by_rating(rm, rating) ==
  [songs |-> MapIndex(rm, rating)[rating], ratingMap |-> MapIndex(rm, rating)]

\* vec.erase(remove(vec.begin(), vec.end(), song), vec.end())
srt_delete_song(rm, song, rating) ==
  [MapIndex(rm, rating) EXCEPT ![rating] = SelectSeq(@, LAMBDA x : x # song)]

get_song_count_by_rating(rm) == [r \in DOMAIN rm |-> Len(rm[r])]

\* --------------------------------------------------------------- SongLookup
\* lookup_add with an insert that keeps an entry the title already has.
lookup_add_keep(lk, title, song) ==
  [t \in DOMAIN lk \cup {title} |-> IF t \in DOMAIN lk THEN lk[t] ELSE song]

\* lookup[song->title] = song; `title` is song->title.
lookup_add(lk, title, song) ==
  [t \in DOMAIN lk \cup {title} |-> IF t = title THEN song ELSE lk[t]]

lookup_get(lk, title) == IF title \in DOMAIN lk THEN lk[title] ELSE NULL

\* ------------------------------------------------------- recency trackers
\* Touch without the pop_back.
TouchNoEvict(w, song, max) ==
  LET it == IndexOf(w, song)
      w1 == IF it # 0 THEN RemoveAt(w, it) ELSE w
  IN  <<song>> \o w1

\* Touch without the erase of the entry found.
TouchNoErase(w, song, max) ==
  LET w2 == <<song>> \o w
  IN  IF Len(w2) > max THEN SubSeq(w2, 1, Len(w2) - 1) ELSE w2

\* Touch that leaves an entry found where it is.
TouchKeepPlace(w, song, max) ==
  LET w2 == <<song>> \o w
  IN  IF IndexOf(w, song) # 0 THEN w
      ELSE IF Len(w2) > max THEN SubSeq(w2, 1, Len(w2) - 1) ELSE w2

\* Touch with pop_front in the place of pop_back.
TouchEvictFront(w, song, max) ==
  LET it == IndexOf(w, song)
      w1 == IF it # 0 THEN RemoveAt(w, it) ELSE w
      w2 == <<song>> \o w1
  IN  IF Len(w2) > max THEN SubSeq(w2, 2, Len(w2)) ELSE w2

\* find, erase, push_front, pop_back when the size exceeds `max`.
Touch(w, song, max) ==
  LET it == IndexOf(w, song)
      w1 == IF it # 0 THEN RemoveAt(w, it) ELSE w
      w2 == <<song>> \o w1
  IN  IF Len(w2) > max THEN SubSeq(w2, 1, Len(w2) - 1) ELSE w2

addSkippedSong(w, song) == Touch(w, song, MAX_SKIPPED)

isRecentlySkipped(w, song) == \E i \in 1..Len(w) : w[i] = song

getSkippedSongs(w) == w

\* The window left as it is in the place of skippedSongs.clear().
clearSkippedHistory_none(w) == w

clearSkippedHistory(w) == <<>>

addRecentSong(w, song) == Touch(w, song, MAX_RECENT)

getRecentlyAdded(w, limit) == Prefix(w, limit)

clearRecentlyAdded(w) == <<>>

\* for (song : recentlyAdded) if (song->genre == genre) { push; if (size >= limit) break; }
\* `g` gives the genre read through each Song*.
RECURSIVE ByGenreLoop(_, _, _, _, _)
ByGenreLoop(w, i, result, g, genreLimit) ==
  IF i > Len(w) THEN result
  ELSE IF g[w[i]] = genreLimit.genre
       THEN LET r1 == Append(result, w[i])
            IN  IF Len(r1) >= genreLimit.limit THEN r1 ELSE ByGenreLoop(w, i + 1, r1, g, genreLimit)
       ELSE ByGenreLoop(w, i + 1, result, g, genreLimit)

getRecentlyAddedByGenre(w, g, genre, limit) ==
  ByGenreLoop(w, 1, <<>>, g, [genre |-> genre, limit |-> limit])

\* ---------------------------------------------------------- AutoReplaySystem
UpperCase == <<"A", "B", "C", "D", "E", "F", "G", "H", "I", "J", "K", "L", "M",
               "N", "O", "P", "Q", "R", "S", "T", "U", "V", "W", "X", "Y", "Z">>
LowerCase == <<"a", "b", "c", "d", "e", "f", "g", "h", "i", "j", "k", "l", "m",
               "n", "o", "p", "q", "r", "s", "t", "u", "v", "w", "x", "y", "z">>

\* The character left as it is.
tolower_none(c) == c

tolower(c) == IF \E i \in 1..26 : UpperCase[i] = c
              THEN LowerCase[CHOOSE i \in 1..26 : UpperCase[i] = c]
              ELSE c

ToLowerStr(str) == [i \in 1..Len(str) |-> tolower(str[i])]

calmingGenres ==
  << <<"L", "o", "-", "F", "i">>, <<"J", "a", "z", "z">>,
     <<"C", "l", "a", "s", "s", "i", "c", "a", "l">>, <<"A", "m", "b", "i", "e", "n", "t">>,
     <<"C", "h", "i", "l", "l">>, <<"L", "o", "f", "i">> >>

\* The lowered copy of each calming genre the loop compares with.
lowerCalming == [i \in 1..Len(calmingGenres) |-> ToLowerStr(calmingGenres[i])]

isCalming(genre) ==
  LET lowerGenre == ToLowerStr(genre)
  IN  \E i \in 1..Len(calmingGenres) : lowerGenre = lowerCalming[i]

\* playCounts.count(title) ? playCounts.at(title) : 0
CountOf(pc, title) == IF title \in DOMAIN pc THEN pc[title] ELSE 0

\* less<pair<int, Song*>> in the place of greater.
PairLess(p, q) == p[1] < q[1] \/ (p[1] = q[1] /\ p[2] < q[2])

\* greater<pair<int, Song*>>: by play count, then by the pointers' order.
PairGreater(p, q) == p[1] > q[1] \/ (p[1] = q[1] /\ p[2] > q[2])

\* std::sort with the comparator PairGreater.
RECURSIVE SortPairs(_)
SortPairs(s) ==
  IF s = <<>> THEN <<>>
  ELSE LET i == CHOOSE k \in 1..Len(s) : \A j \in 1..Len(s) : ~PairGreater(s[j], s[k])
       IN  <<s[i]>> \o SortPairs(RemoveAt(s, i))

\* CalmingPairs without the isRecentlySkipped test.
RECURSIVE CalmingPairsNoSkip(_, _, _, _, _)
CalmingPairsNoSkip(allSongs, i, m, pc, skipped) ==
  IF i > Len(allSongs) THEN <<>>
  ELSE LET song == allSongs[i]
           rest == CalmingPairsNoSkip(allSongs, i + 1, m, pc, skipped)
       IN  IF isCalming(m[song].genre)
           THEN << <<CountOf(pc, m[song].title), song>> >> \o rest
           ELSE rest

\* The (playCount, song) pairs of the calming songs that were not recently skipped.
RECURSIVE CalmingPairs(_, _, _, _, _)
CalmingPairs(allSongs, i, m, pc, skipped) ==
  IF i > Len(allSongs) THEN <<>>
  ELSE LET song == allSongs[i]
           rest == CalmingPairs(allSongs, i + 1, m, pc, skipped)
       IN  IF isCalming(m[song].genre) /\ ~isRecentlySkipped(skipped, song)
           THEN << <<CountOf(pc, m[song].title), song>> >> \o rest
           ELSE rest

\* getTop3CalmingSongs without the limit of three.
getAllCalmingSongs(allSongs, m, pc, skipped) ==
  LET calmingSongs == SortPairs(CalmingPairs(allSongs, 1, m, pc, skipped))
  IN  [i \in 1..Len(calmingSongs) |-> calmingSongs[i][2]]

getTop3CalmingSongs(allSongs, m, pc, skipped) ==
  LET calmingSongs == SortPairs(CalmingPairs(allSongs, 1, m, pc, skipped))
      n == IF TOP_N < Len(calmingSongs) THEN TOP_N ELSE Len(calmingSongs)
  IN  [i \in 1..n |-> calmingSongs[i][2]]

\* A read of the count with operator[], which inserts the title it does not find.
CountReadIndex(pc, title) == IF title \in DOMAIN pc THEN pc ELSE pc @@ (title :> 0)

\* The map after playCounts.count(title) ? playCounts.at(title) : 0, on a const
\* reference: count and at insert nothing.
CountRead(pc, title) == pc

\* The play-count map after the filter loop of getTop3CalmingSongs has read the
\* count of every calming song that was not recently skipped.
RECURSIVE CountsAfterSelect(_, _, _, _, _)
CountsAfterSelect(allSongs, i, m, pc, skipped) ==
  IF i > Len(allSongs) THEN pc
  ELSE LET song == allSongs[i]
       IN  CountsAfterSelect(allSongs, i + 1, m,
                             IF isCalming(m[song].genre) /\ ~isRecentlySkipped(skipped, song)
                             THEN CountRead(pc, m[song].title) ELSE pc,
                             skipped)

\* `playCounts[title] = 1` in the place of the increment.
IncCountReset(pc, title) == [t \in DOMAIN pc \cup {title} |-> IF t = title THEN 1 ELSE pc[t]]

\* playCounts[title]++
IncCount(pc, title) ==
  IF title \in DOMAIN pc THEN [pc EXCEPT ![title] = @ + 1] ELSE pc @@ (title :> 1)

\* The loop without `playCounts[song->title]++`.
RECURSIVE PlayAllNoCount(_, _, _, _, _)
PlayAllNoCount(songs, i, h, pc, rd) ==
  IF i > Len(songs) THEN [history |-> h, playCounts |-> pc]
  ELSE PlayAllNoCount(songs, i + 1, ph_add(h, songs[i]), pc, rd)

\* for (song : songs) { ph.add(song); playCounts[song->title]++; }
\* `rd` gives the title read through each Song*.
RECURSIVE PlayAll(_, _, _, _, _)
PlayAll(songs, i, h, pc, rd) ==
  IF i > Len(songs) THEN [history |-> h, playCounts |-> pc]
  ELSE PlayAll(songs, i + 1, ph_add(h, songs[i]), IncCount(pc, rd[songs[i]]), rd)

startAutoReplay(calmingSongs, h, pc, rd) == PlayAll(calmingSongs, 1, h, pc, rd)

\* ------------------------------------------------------------- sort_songs
compare_title(m, a, b) == IndexOf(TitleOrder, m[a].title) < IndexOf(TitleOrder, m[b].title)

compare_duration(m, a, b) == m[a].duration < m[b].duration

\* The orders std::sort may leave `songs` in: every arrangement of them in which
\* no song precedes one that compares less than it.
SortedBy(songs, m, by) ==
  {p \in [1..Len(songs) -> Range(songs)] :
     /\ \A x \in Range(songs) : \E i \in 1..Len(songs) : p[i] = x
     /\ \A i, j \in 1..Len(songs) : i < j =>
          ~(IF by = "title" THEN compare_title(m, p[j], p[i])
            ELSE compare_duration(m, p[j], p[i]))}

sort_songs(songs, m, by) ==
  IF by \in {"title", "duration"} THEN SortedBy(songs, m, by)
  ELSE {songs}

\* ------------------------------------------------------------ PlaylistPlayer
\* A player value is [currentIndex, isPlaying, currentSong].
NewPlayer == [currentIndex |-> -1, isPlaying |-> FALSE, currentSong |-> NULL]

\* The songs of a playlist are live, so their titles are read from mem.
LiveTitle(m) == [a \in DOMAIN m |-> m[a].title]

playEntirePlaylist(pl, h, pc, P) ==
  LET songs == get_all_songs(pl)
  IN  IF songs = <<>> THEN [player |-> P, history |-> h, playCounts |-> pc]
      ELSE LET r == PlayAll(songs, 1, h, pc, LiveTitle(pl.mem))
           IN  [player |-> [currentIndex |-> Len(songs) - 1, isPlaying |-> FALSE, currentSong |-> songs[Len(songs)]],
                history |-> r.history, playCounts |-> r.playCounts]

playNext(pl, h, pc, P) ==
  LET songs == get_all_songs(pl)
  IN  IF songs = <<>> \/ P.currentIndex + 1 >= Len(songs)
      THEN [ok |-> FALSE, player |-> P, history |-> h, playCounts |-> pc]
      ELSE LET song == songs[P.currentIndex + 2]
           IN  [ok |-> TRUE,
                player |-> [currentIndex |-> P.currentIndex + 1, isPlaying |-> TRUE, currentSong |-> song],
                history |-> ph_add(h, song),
                playCounts |-> IncCount(pc, pl.mem[song].title)]

\* currentSong = songs[currentIndex] reads past the end of the vector when the new
\* index is not below its size: `wild` is the Song* and `wildTitle` the title that
\* read produces.
playPrevious(pl, h, pc, P, wild, wildTitle) ==
  LET songs == get_all_songs(pl)
  IN  IF songs = <<>> \/ P.currentIndex <= 0
      THEN [ok |-> FALSE, player |-> P, history |-> h, playCounts |-> pc, inRange |-> TRUE]
      ELSE LET i == P.currentIndex - 1
               inRange == i < Len(songs)
               song == IF inRange THEN songs[i + 1] ELSE wild
               title == IF inRange THEN pl.mem[song].title ELSE wildTitle
           IN  [ok |-> TRUE,
                player |-> [currentIndex |-> i, isPlaying |-> TRUE, currentSong |-> song],
                history |-> ph_add(h, song),
                playCounts |-> IncCount(pc, title),
                inRange |-> inRange]

\* The condition under which showCurrentSong prints currentSong's fields.
showCurrentSong(pl, P) ==
  P.currentSong # NULL /\ P.isPlaying /\ P.currentIndex >= 0 /\ P.currentIndex < Len(get_all_songs(pl))

\* ------------------------------------------------------------- persistence
NoFile == [present |-> FALSE, songs |-> <<>>, playCounts |-> <<>>, ratings |-> <<>>,
           history |-> <<>>, skipped |-> <<>>, recent |-> <<>>]

\* No load_all_data is running.
NoReader == [is_open |-> FALSE, lines |-> <<>>, pos |-> 1, section |-> <<>>]

\* The [RATINGS] lines: the map's keys in ascending order, each key's songs in
\* vector order, keys with no song skipped.
RECURSIVE RatingLines(_, _, _)
RatingLines(rm, keys, rd) ==
  IF keys = {} THEN <<>>
  ELSE LET k == CHOOSE x \in keys : \A y \in keys : x <= y
       IN  [i \in 1..Len(rm[k]) |-> <<rd[rm[k][i]], k>>] \o RatingLines(rm, keys \ {k}, rd)

\* The Song* values save_all_data reads a title through, the catalog's aside.
SaveReads(rm, h, skipped, recent) ==
  UNION {Range(rm[k]) : k \in DOMAIN rm}
    \cup Range(get_recently_played(h, RECENT_PLAYED_N))
    \cup Range(getSkippedSongs(skipped))
    \cup Range(getRecentlyAdded(recent, MAX_RECENT))

\* `rd` gives the title read through each Song*.
save_all_data(songs, m, pc, rm, h, skipped, recent, rd) ==
  [present |-> TRUE,
   songs |-> [i \in 1..Len(songs) |-> <<m[songs[i]].title, m[songs[i]].artist, m[songs[i]].genre, m[songs[i]].duration>>],
   playCounts |-> pc,
   ratings |-> RatingLines(rm, DOMAIN rm, rd),
   history |-> [i \in 1..Len(get_recently_played(h, RECENT_PLAYED_N)) |-> rd[get_recently_played(h, RECENT_PLAYED_N)[i]]],
   skipped |-> [i \in 1..Len(getSkippedSongs(skipped)) |-> rd[getSkippedSongs(skipped)[i]]],
   recent |-> [i \in 1..Len(getRecentlyAdded(recent, MAX_RECENT)) |-> rd[getRecentlyAdded(recent, MAX_RECENT)[i]]]]

\* The titles reads can produce: a live Song's own title; any title or garbage
\* through a dangling Song* that is read.
ReadMaps(m, hp, reads) ==
  {f \in [Addr -> TitleRead] :
     \A a \in Addr : /\ a \in hp => f[a] = m[a].title
                     /\ (a \notin hp /\ a \notin reads) => f[a] = Garbage}

\* ------------------------------------------------------------------- main
PL == [head |-> head, tail |-> tail, mem |-> mem, heap |-> heap]
Player == [currentIndex |-> currentIndex, isPlaying |-> isPlaying, currentSong |-> currentSong]

SetPlaylist(pl) == head' = pl.head /\ tail' = pl.tail /\ mem' = pl.mem /\ heap' = pl.heap
SetPlayer(P) == currentIndex' = P.currentIndex /\ isPlaying' = P.isPlaying /\ currentSong' = P.currentSong

Op(name, args, ret) == [op |-> name, args |-> args, ret |-> ret]

NoTouchTime == [skipped |-> <<>>, added |-> <<>>]

\* The tally of a playlist to which `songs` were appended, in that order, and nothing else done.
Appended(songs) == [appends |-> Len(songs), removals |-> 0, order |-> songs, reordered |-> FALSE]

\* The tally after an operation that appended the songs `added`, deleted the songs
\* `removed`, and was (or was not) a move or a reverse.
TallyAfter(added, removed, reorders) ==
  [appends |-> tally.appends + Len(added),
   removals |-> tally.removals + Cardinality(removed),
   order |-> SelectSeq(tally.order, LAMBDA x : x \notin removed) \o added,
   reordered |-> tally.reordered \/ reorders]

\* The values the menu reads from the user.
Indexes == -1..MaxAddr
Ratings == {MIN_RATING - 1, MIN_RATING, MAX_RATING, MAX_RATING + 1}

Init ==
  /\ head = EmptyPlaylist.head /\ tail = EmptyPlaylist.tail
  /\ mem = EmptyPlaylist.mem /\ heap = EmptyPlaylist.heap
  /\ history = <<>> /\ ratingMap = <<>> /\ lookup = <<>> /\ playCounts = <<>>
  /\ skippedSongs = <<>> /\ recentlyAdded = <<>>
  /\ currentIndex = NewPlayer.currentIndex /\ isPlaying = NewPlayer.isPlaying
  /\ currentSong = NewPlayer.currentSong
  /\ file = NoFile
  /\ lastOp = Op("start", <<>>, NULL)
  /\ uaf = FALSE
  /\ touchTime = NoTouchTime
  /\ titleClash = FALSE
  /\ reader = NoReader
  /\ steps = 0
  /\ tally = Appended(<<>>)

Running == steps < MaxSteps /\ lastOp.op \notin {"exit", "crash"}

\* autoSave() on the state the handler leaves, after the handler itself read the
\* Songs `reads` points to.
AutoSave(pl, pc, rm, h, skipped, recent, reads) ==
  /\ uaf' = (uaf \/ ~((reads \cup SaveReads(rm, h, skipped, recent)) \subseteq pl.heap))
  /\ \E rd \in ReadMaps(pl.mem, pl.heap, SaveReads(rm, h, skipped, recent)) :
       file' = save_all_data(get_all_songs(pl), pl.mem, pc, rm, h, skipped, recent, rd)

\* A handler that saves nothing, deletes nothing, and read the Songs `reads` points to.
NoSave(reads) == uaf' = (uaf \/ ~(reads \subseteq heap)) /\ file' = file

\* touchTime after `song` is touched at time `now`.
Stamp(tt, song, now) == [r \in DOMAIN tt \cup {song} |-> IF r = song THEN now ELSE tt[r]]

StepT(name, args, ret, tt) ==
  /\ lastOp' = Op(name, args, ret) /\ steps' = steps + 1 /\ touchTime' = tt
  /\ reader' = reader
  /\ titleClash' = (titleClash \/ (name = "add" /\ \E x \in heap : mem[x].title = args[1]))
  /\ tally' = TallyAfter(IF name = "add" THEN <<ret>> ELSE <<>>,
                         IF name = "delete" THEN ret ELSE {},
                         name \in {"move", "reverse"})

Step(name, args, ret) == StepT(name, args, ret, touchTime)

\* case 1
AddSong ==
  /\ Running
  /\ \E title \in Titles, artist \in Artists, genre \in Genres, duration \in Durations, a \in Addr \ heap :
       LET pl == add_song(PL, a, title, artist, genre, duration)
           lk == lookup_add(lookup, title, a)
           ra == addRecentSong(recentlyAdded, a)
       IN  /\ SetPlaylist(pl) /\ lookup' = lk /\ recentlyAdded' = ra
           /\ AutoSave(pl, playCounts, ratingMap, history, skippedSongs, ra, {})
           /\ StepT("add", <<title, genre>>, a, [touchTime EXCEPT !.added = Stamp(@, a, steps + 1)])
  /\ UNCHANGED <<history, ratingMap, playCounts, skippedSongs, currentIndex, isPlaying, currentSong>>

\* case 2
DeleteSong ==
  /\ Running
  /\ \E index \in Indexes :
       LET pl == delete_song(PL, index)
       IN  /\ SetPlaylist(pl)
           /\ AutoSave(pl, playCounts, ratingMap, history, skippedSongs, recentlyAdded, {})
           /\ Step("delete", <<index>>, heap \ pl.heap)
  /\ UNCHANGED <<history, ratingMap, lookup, playCounts, skippedSongs, recentlyAdded,
                 currentIndex, isPlaying, currentSong>>

\* case 3
MoveSong ==
  /\ Running
  /\ \E from \in Indexes, to \in Indexes :
       /\ SetPlaylist(move_song(PL, from, to))
       /\ Step("move", <<from, to>>, NULL)
  /\ NoSave({})
  /\ UNCHANGED <<history, ratingMap, lookup, playCounts, skippedSongs, recentlyAdded,
                 currentIndex, isPlaying, currentSong>>

\* case 4
ReversePlaylist ==
  /\ Running
  /\ SetPlaylist(reverse_playlist(PL))
  /\ Step("reverse", <<>>, NULL)
  /\ NoSave({})
  /\ UNCHANGED <<history, ratingMap, lookup, playCounts, skippedSongs, recentlyAdded,
                 currentIndex, isPlaying, currentSong>>

\* case 5 (prints undone->title)
UndoLastPlay ==
  /\ Running
  /\ LET r == undo_last_play(history)
     IN  /\ history' = r.history
         /\ NoSave({r.song} \ {NULL})
         /\ Step("undo", <<>>, r.song)
  /\ UNCHANGED <<head, tail, mem, heap, ratingMap, lookup, playCounts, skippedSongs, recentlyAdded,
                 currentIndex, isPlaying, currentSong>>

\* case 6 (prints song->title, artist, genre)
SearchSong ==
  /\ Running
  /\ \E title \in Titles :
       /\ NoSave({lookup_get(lookup, title)} \ {NULL})
       /\ Step("search", <<title>>, lookup_get(lookup, title))
  /\ UNCHANGED <<head, tail, mem, heap, history, ratingMap, lookup, playCounts, skippedSongs,
                 recentlyAdded, currentIndex, isPlaying, currentSong>>

\* case 7
RateSong ==
  /\ Running
  /\ \E title \in Titles, rating \in Ratings :
       LET song == lookup_get(lookup, title)
       IN  /\ Step("rate", <<title, rating>>, song)
           /\ IF song # NULL /\ rating >= MIN_RATING /\ rating <= MAX_RATING
              THEN /\ ratingMap' = insert_song(ratingMap, song, rating)
                   /\ AutoSave(PL, playCounts, insert_song(ratingMap, song, rating), history,
                               skippedSongs, recentlyAdded, {})
              ELSE /\ ratingMap' = ratingMap
                   /\ file' = file /\ uaf' = uaf
  /\ UNCHANGED <<head, tail, mem, heap, history, lookup, playCounts, skippedSongs, recentlyAdded,
                 currentIndex, isPlaying, currentSong>>

\* case 8 (prints the title and artist of every song found)
ViewByRating ==
  /\ Running
  /\ \E rating \in Ratings :
       LET r == search_by_rating(ratingMap, rating)
       IN  /\ ratingMap' = r.ratingMap
           /\ NoSave(Range(r.songs))
           /\ Step("view_rating", <<rating>>, r.songs)
  /\ UNCHANGED <<head, tail, mem, heap, history, lookup, playCounts, skippedSongs, recentlyAdded,
                 currentIndex, isPlaying, currentSong>>

\* case 9 (export_snapshot prints the titles of the recently played songs)
ExportSnapshot ==
  /\ Running
  /\ NoSave(Range(get_recently_played(history, RECENT_PLAYED_N)))
  /\ Step("snapshot", <<>>, get_song_count_by_rating(ratingMap))
  /\ UNCHANGED <<head, tail, mem, heap, history, ratingMap, lookup, playCounts, skippedSongs,
                 recentlyAdded, currentIndex, isPlaying, currentSong>>

\* case 10 (prints the sorted copy of the catalog)
SortSongs ==
  /\ Running
  /\ \E by \in {"title", "duration", "artist"} :
       \E sorted \in sort_songs(get_all_songs(PL), mem, by) :
         Step("sort", <<by>>, sorted)
  /\ NoSave({})
  /\ UNCHANGED <<head, tail, mem, heap, history, ratingMap, lookup, playCounts, skippedSongs,
                 recentlyAdded, currentIndex, isPlaying, currentSong>>

\* case 11 (prints song->title, artist, genre after the save)
PlaySong ==
  /\ Running
  /\ \E title \in Titles :
       LET song == lookup_get(lookup, title)
       IN  /\ Step("play", <<title>>, song)
           /\ IF song # NULL
              THEN /\ history' = ph_add(history, song)
                   /\ playCounts' = IncCount(playCounts, title)
                   /\ AutoSave(PL, IncCount(playCounts, title), ratingMap, ph_add(history, song),
                               skippedSongs, recentlyAdded, {song})
              ELSE /\ history' = history /\ playCounts' = playCounts
                   /\ file' = file /\ uaf' = uaf
  /\ UNCHANGED <<head, tail, mem, heap, ratingMap, lookup, skippedSongs, recentlyAdded,
                 currentIndex, isPlaying, currentSong>>

\* The auto-replay cases 12 and 13 run on history h and play counts pc.
AutoReplay(h, pc) ==
  LET calmingSongs == getTop3CalmingSongs(get_all_songs(PL), mem, pc, skippedSongs)
  IN  IF calmingSongs # <<>>
      THEN startAutoReplay(calmingSongs, h, pc, LiveTitle(mem)) @@ [selected |-> calmingSongs, replayed |-> TRUE]
      ELSE [history |-> h, playCounts |-> pc, selected |-> calmingSongs, replayed |-> FALSE]

\* case 12
PlayEntirePlaylist ==
  /\ Running
  /\ LET r == playEntirePlaylist(PL, history, playCounts, Player)
         ar == AutoReplay(r.history, r.playCounts)
     IN  /\ SetPlayer(r.player)
         /\ history' = ar.history /\ playCounts' = ar.playCounts
         /\ AutoSave(PL, ar.playCounts, ratingMap, ar.history, skippedSongs, recentlyAdded,
                     SaveReads(ratingMap, r.history, skippedSongs, recentlyAdded))
         /\ Step("play_all", <<>>, ar.selected)
  /\ UNCHANGED <<head, tail, mem, heap, ratingMap, lookup, skippedSongs, recentlyAdded>>

\* case 13
PlayNextSong ==
  /\ Running
  /\ LET r == playNext(PL, history, playCounts, Player)
         ar == AutoReplay(r.history, r.playCounts)
     IN  /\ SetPlayer(r.player)
         /\ Step("next", <<>>, IF r.ok THEN <<r.player.currentSong>> ELSE ar.selected)
         /\ IF r.ok
            THEN /\ history' = r.history /\ playCounts' = r.playCounts
                 /\ AutoSave(PL, r.playCounts, ratingMap, r.history, skippedSongs, recentlyAdded, {})
            ELSE /\ history' = ar.history /\ playCounts' = ar.playCounts
                 /\ IF ar.replayed
                    THEN AutoSave(PL, ar.playCounts, ratingMap, ar.history, skippedSongs, recentlyAdded, {})
                    ELSE file' = file /\ uaf' = uaf
  /\ UNCHANGED <<head, tail, mem, heap, ratingMap, lookup, skippedSongs, recentlyAdded>>

\* case 14.  When the new index is past the end of the vector, the read yields any
\* Song* (`wild`); through NULL the program crashes, otherwise a title is read.
PlayPreviousSong ==
  /\ Running
  /\ \E wild \in Addr \cup {NULL}, wildTitle \in TitleRead :
       LET r == playPrevious(PL, history, playCounts, Player, wild, wildTitle)
       IN  /\ r.inRange => (wild = NULL /\ wildTitle = Garbage)
           /\ (~r.inRange /\ wild \in heap) => wildTitle = mem[wild].title
           /\ (~r.inRange /\ wild = NULL) => wildTitle = Garbage
           /\ IF ~r.inRange /\ wild = NULL
              THEN /\ Step("crash", <<"previous">>, NULL)
                   /\ UNCHANGED <<currentIndex, isPlaying, currentSong, history, playCounts, file, uaf>>
              ELSE /\ SetPlayer(r.player)
                   /\ history' = r.history /\ playCounts' = r.playCounts
                   /\ Step("previous", <<r.ok, r.inRange>>, r.player.currentSong)
                   /\ IF r.ok
                      THEN AutoSave(PL, r.playCounts, ratingMap, r.history, skippedSongs, recentlyAdded, {})
                      ELSE file' = file /\ uaf' = uaf
  /\ UNCHANGED <<head, tail, mem, heap, ratingMap, lookup, skippedSongs, recentlyAdded>>

\* case 15 (prints currentSong's fields when showCurrentSong's condition holds)
ShowCurrentSong ==
  /\ Running
  /\ NoSave(IF showCurrentSong(PL, Player) THEN {currentSong} ELSE {})
  /\ Step("show", <<>>, showCurrentSong(PL, Player))
  /\ UNCHANGED <<head, tail, mem, heap, history, ratingMap, lookup, playCounts, skippedSongs,
                 recentlyAdded, currentIndex, isPlaying, currentSong>>

\* case 16 (prints song->title and genre after the save)
SkipSong ==
  /\ Running
  /\ \E title \in Titles :
       LET song == lookup_get(lookup, title)
       IN  /\ StepT("skip", <<title>>, song,
                     IF song # NULL THEN [touchTime EXCEPT !.skipped = Stamp(@, song, steps + 1)] ELSE touchTime)
           /\ IF song # NULL
              THEN /\ skippedSongs' = addSkippedSong(skippedSongs, song)
                   /\ AutoSave(PL, playCounts, ratingMap, history, addSkippedSong(skippedSongs, song),
                               recentlyAdded, {song})
              ELSE /\ skippedSongs' = skippedSongs
                   /\ file' = file /\ uaf' = uaf
  /\ UNCHANGED <<head, tail, mem, heap, history, ratingMap, lookup, playCounts, recentlyAdded,
                 currentIndex, isPlaying, currentSong>>

\* case 17 (prints the fields of every skipped song)
ViewSkipHistory ==
  /\ Running
  /\ NoSave(Range(getSkippedSongs(skippedSongs)))
  /\ Step("view_skipped", <<>>, getSkippedSongs(skippedSongs))
  /\ UNCHANGED <<head, tail, mem, heap, history, ratingMap, lookup, playCounts, skippedSongs,
                 recentlyAdded, currentIndex, isPlaying, currentSong>>

\* case 18
ClearSkipHistory ==
  /\ Running
  /\ skippedSongs' = clearSkippedHistory(skippedSongs)
  /\ NoSave({})
  /\ StepT("clear_skipped", <<>>, NULL, [touchTime EXCEPT !.skipped = <<>>])
  /\ UNCHANGED <<head, tail, mem, heap, history, ratingMap, lookup, playCounts,
                 recentlyAdded, currentIndex, isPlaying, currentSong>>

\* case 19 (prints the fields of the ten most recently added songs)
ViewRecentlyAdded ==
  /\ Running
  /\ NoSave(Range(getRecentlyAdded(recentlyAdded, RECENT_SHOWN)))
  /\ Step("view_recent", <<>>, getRecentlyAdded(recentlyAdded, RECENT_SHOWN))
  /\ UNCHANGED <<head, tail, mem, heap, history, ratingMap, lookup, playCounts, skippedSongs,
                 recentlyAdded, currentIndex, isPlaying, currentSong>>

\* case 20
ClearRecentlyAdded ==
  /\ Running
  /\ recentlyAdded' = clearRecentlyAdded(recentlyAdded)
  /\ AutoSave(PL, playCounts, ratingMap, history, skippedSongs, clearRecentlyAdded(recentlyAdded), {})
  /\ StepT("clear_recent", <<>>, NULL, [touchTime EXCEPT !.added = <<>>])
  /\ UNCHANGED <<head, tail, mem, heap, history, ratingMap, lookup, playCounts, skippedSongs,
                 currentIndex, isPlaying, currentSong>>

\* case 0, and the save that follows the loop
Exit ==
  /\ Running
  /\ AutoSave(PL, playCounts, ratingMap, history, skippedSongs, recentlyAdded, {})
  /\ Step("exit", <<>>, NULL)
  /\ UNCHANGED <<head, tail, mem, heap, history, ratingMap, lookup, playCounts, skippedSongs,
                 recentlyAdded, currentIndex, isPlaying, currentSong>>

Next ==
  \/ AddSong \/ DeleteSong \/ MoveSong \/ ReversePlaylist \/ UndoLastPlay \/ SearchSong
  \/ RateSong \/ ViewByRating \/ ExportSnapshot \/ SortSongs \/ PlaySong \/ PlayEntirePlaylist
  \/ PlayNextSong \/ PlayPreviousSong \/ ShowCurrentSong \/ SkipSong \/ ViewSkipHistory
  \/ ClearSkipHistory \/ ViewRecentlyAdded \/ ClearRecentlyAdded \/ Exit

Spec == Init /\ [][Next]_vars

\* ------------------------------------------------- the session's properties
Catalog == get_all_songs(PL)

\* C1: no operation reads a Song that delete_song destroyed through a Song* another
\* structure still holds (title index, rating map, history, trackers, player).
C1_NoReadOfDeletedSong == ~uaf

\* C2: once a track is removed from the catalog, lookup by a title never returns
\* the removed track: what lookup returns is not-found or a live Song registered
\* under that title.
C2_LookupNeverReturnsRemoved ==
  \A t \in Titles :
    lookup_get(lookup, t) # NULL => (lookup_get(lookup, t) \in heap /\ mem[lookup_get(lookup, t)].title = t)

\* C3 as stated: for every track of the catalog, lookup by its title returns that track.
C3_LookupReturnsEveryCatalogTrack ==
  \A i \in 1..Len(Catalog) : lookup_get(lookup, mem[Catalog[i]].title) = Catalog[i]

\* C3, amended: as long as no track was added under a title that a track of the
\* catalog already had, for every track of the catalog lookup by its title
\* returns that track.
C3_LookupReturnsCatalogTrackUniqueTitles ==
  ~titleClash => C3_LookupReturnsEveryCatalogTrack

\* A second track was added, under another title than the first, and both are in
\* the catalog.
C3_Witness ==
  /\ lastOp.op = "add" /\ ~titleClash /\ Len(Catalog) >= 2
  /\ lookup_get(lookup, lastOp.args[1]) = lastOp.ret

\* ------------------------------------------- the recency trackers on their own
\* The two windows under touch and clear alone, started from windows the program
\* can have built (empty, one below capacity, full), each with the touch times
\* that built it: the Song* at position i was touched before the one at i - 1.
Refs == 1..NumRefs

BuiltWindow(len) == [i \in 1..len |-> i]
BuiltTimes(len) == [r \in 1..len |-> 0 - r]
BuiltLens(max) == {0, max - 1, max}

Idle ==
  /\ head = NULL /\ tail = NULL /\ mem = [a \in Addr |-> NoSong] /\ heap = {}
  /\ history = <<>> /\ ratingMap = <<>> /\ lookup = <<>> /\ playCounts = <<>>
  /\ currentIndex = -1 /\ isPlaying = FALSE /\ currentSong = NULL
  /\ file = NoFile /\ uaf = FALSE /\ titleClash = FALSE /\ reader = NoReader /\ steps = 0
  /\ tally = Appended(<<>>)

TrackerInit ==
  /\ Idle
  /\ lastOp = Op("start", <<>>, NULL)
  /\ \E ks \in BuiltLens(MAX_SKIPPED), ka \in BuiltLens(MAX_RECENT) :
       /\ skippedSongs = BuiltWindow(ks) /\ recentlyAdded = BuiltWindow(ka)
       /\ touchTime = [skipped |-> BuiltTimes(ks), added |-> BuiltTimes(ka)]

TrackerFrame ==
  UNCHANGED <<head, tail, mem, heap, history, ratingMap, lookup, playCounts,
              currentIndex, isPlaying, currentSong, file, uaf>>

TouchSkipped ==
  /\ steps < MaxTouches
  /\ \E song \in Refs :
       /\ skippedSongs' = addSkippedSong(skippedSongs, song)
       /\ StepT("touch_skipped", <<song>>, skippedSongs, [touchTime EXCEPT !.skipped = Stamp(@, song, steps + 1)])
  /\ UNCHANGED recentlyAdded
  /\ TrackerFrame

TouchAdded ==
  /\ steps < MaxTouches
  /\ \E song \in Refs :
       /\ recentlyAdded' = addRecentSong(recentlyAdded, song)
       /\ StepT("touch_added", <<song>>, recentlyAdded, [touchTime EXCEPT !.added = Stamp(@, song, steps + 1)])
  /\ UNCHANGED skippedSongs
  /\ TrackerFrame

ClearSkipped ==
  /\ steps < MaxTouches
  /\ skippedSongs' = clearSkippedHistory(skippedSongs)
  /\ StepT("clear_skipped", <<>>, skippedSongs, [touchTime EXCEPT !.skipped = <<>>])
  /\ UNCHANGED recentlyAdded
  /\ TrackerFrame

ClearAdded ==
  /\ steps < MaxTouches
  /\ recentlyAdded' = clearRecentlyAdded(recentlyAdded)
  /\ StepT("clear_added", <<>>, recentlyAdded, [touchTime EXCEPT !.added = <<>>])
  /\ UNCHANGED skippedSongs
  /\ TrackerFrame

TrackerNext == TouchSkipped \/ TouchAdded \/ ClearSkipped \/ ClearAdded

SpecTracker == TrackerInit /\ [][TrackerNext]_vars

\* In a state a touch produced: the touched Song*, and the window before the touch.
TouchedSkipped == lastOp.op = "touch_skipped"
TouchedAdded == lastOp.op = "touch_added"
Touched == lastOp.args[1]
Before == lastOp.ret

Without(w, t) == SelectSeq(w, LAMBDA x : x # t)

\* C4: a window never holds more than its capacity, 10 skipped and 15 added.
C4_WindowWithinCapacity ==
  Len(skippedSongs) <= MAX_SKIPPED /\ Len(recentlyAdded) <= MAX_RECENT

\* A Song* that was not in the full skip window has been touched into it.
C4_Witness ==
  /\ TouchedSkipped /\ Touched \notin Range(Before) /\ Len(Before) = MAX_SKIPPED
  /\ Len(skippedSongs) = MAX_SKIPPED

\* C5: no window holds a Song* more than once.
C5_WindowHasNoDuplicate == NoDup(skippedSongs) /\ NoDup(recentlyAdded)

\* A Song* that was already in the added window has been touched again.
C5_Witness ==
  /\ TouchedAdded /\ Touched \in Range(Before) /\ Before[1] # Touched
  /\ Len(recentlyAdded) > 1

\* C6: after touch(t) the window's front is t; if t was in the window its size is
\* unchanged and the other entries keep their order; and each window lists its
\* entries by the time of their most recent touch, most recent first.
MovedToFront(before, after, t) ==
  /\ after # <<>> /\ after[1] = t
  /\ t \in Range(before) => (Len(after) = Len(before) /\ Without(after, t) = Without(before, t))

OrderedByTouch(w, tt) ==
  \A i, j \in 1..Len(w) : i < j => (w[i] \in DOMAIN tt /\ w[j] \in DOMAIN tt /\ tt[w[i]] > tt[w[j]])

C6_TouchMovesToFront ==
  /\ TouchedSkipped => MovedToFront(Before, skippedSongs, Touched)
  /\ TouchedAdded => MovedToFront(Before, recentlyAdded, Touched)
  /\ OrderedByTouch(skippedSongs, touchTime.skipped)
  /\ OrderedByTouch(recentlyAdded, touchTime.added)

\* The last entry of a skip window of several entries has been touched.
C6_Witness ==
  /\ TouchedSkipped /\ Len(Before) > 2 /\ Before[Len(Before)] = Touched
  /\ skippedSongs[1] = Touched

\* C7: touch(t) with t absent from a full window evicts exactly the entry whose
\* most recent touch is the oldest; the other entries follow t in their order.
Evicts(before, after, t, tt) ==
  /\ after = <<t>> \o SubSeq(before, 1, Len(before) - 1)
  /\ \A i \in 1..(Len(before) - 1) : tt[before[Len(before)]] < tt[before[i]]

C7_TouchEvictsOldest ==
  /\ (TouchedSkipped /\ Touched \notin Range(Before) /\ Len(Before) = MAX_SKIPPED)
       => Evicts(Before, skippedSongs, Touched, touchTime.skipped)
  /\ (TouchedAdded /\ Touched \notin Range(Before) /\ Len(Before) = MAX_RECENT)
       => Evicts(Before, recentlyAdded, Touched, touchTime.added)

\* A Song* that was not in the full added window has been touched into it, after
\* an earlier touch had reordered that window.
C7_Witness ==
  /\ TouchedAdded /\ Touched \notin Range(Before) /\ Len(Before) = MAX_RECENT
  /\ Before # BuiltWindow(MAX_RECENT)
  /\ Len(recentlyAdded) = MAX_RECENT

\* ------------------------------------------- the auto-replay selector on its own
\* getTop3CalmingSongs applied to every catalog of up to MaxCat songs: every
\* assignment of genres to the songs, the address orders of Orderings, every choice
\* of the titles that have been played, every skip window of at most one of the songs.
SelAddr == 1..MaxCat
SelTitles == TitleOrder
SelGenres == {Jazz, Rock}
SelCounts == {0, 1}

\* The address orders offered: along the catalog the addresses ascend or descend,
\* starting anywhere and wrapping around.
Orderings(n) ==
  {[i \in 1..n |-> ((i - 1 + k) % n) + 1] : k \in 0..(n - 1)}
    \cup {[i \in 1..n |-> ((n - i + k) % n) + 1] : k \in 0..(n - 1)}

\* The playlist add_song builds from songs i..n, song k at address at[k].
RECURSIVE Built(_, _, _, _, _)
Built(pl, i, n, at, genre) ==
  IF i > n THEN pl
  ELSE Built(add_song(pl, at[i], SelTitles[i], "x", genre[i], 200), i + 1, n, at, genre)

\* The catalog [Rain (Lo-Fi), Noise (Rock)] with Rain played 3 times and Noise 5,
\* Rain at address at[1] and Noise at address at[2].
RainNoise(at) ==
  add_song(add_song([head |-> NULL, tail |-> NULL, mem |-> [a \in SelAddr |-> NoSong], heap |-> {}],
                    at[1], "Rain", "Artist1", LoFi, 200),
           at[2], "Noise", "Artist2", Rock, 150)

RainNoiseCounts == ("Rain" :> 3) @@ ("Noise" :> 5)

SelectorInit ==
  /\ history = <<>> /\ ratingMap = <<>> /\ lookup = <<>>
  /\ recentlyAdded = <<>>
  /\ currentIndex = -1 /\ isPlaying = FALSE /\ currentSong = NULL
  /\ file = NoFile /\ uaf = FALSE /\ titleClash = FALSE /\ reader = NoReader /\ steps = 0
  /\ touchTime = NoTouchTime
  /\ lastOp = Op("start", <<>>, NULL)
  /\ \/ \E n \in 0..MaxCat :
          \E at \in Orderings(n), genre \in [1..n -> SelGenres], count \in [1..n -> SelCounts] :
            LET pl == Built([head |-> NULL, tail |-> NULL, mem |-> [a \in SelAddr |-> NoSong], heap |-> {}],
                            1, n, at, genre)
            IN  /\ head = pl.head /\ tail = pl.tail /\ mem = pl.mem /\ heap = pl.heap
                /\ playCounts = [t \in {SelTitles[i] : i \in {k \in 1..n : count[k] > 0}} |->
                                   count[CHOOSE i \in 1..n : SelTitles[i] = t]]
                /\ skippedSongs \in {<<>>} \cup {<<a>> : a \in 1..n}
     \/ \E at \in {<<1, 2>>, <<2, 1>>} :
          /\ head = RainNoise(at).head /\ tail = RainNoise(at).tail
          /\ mem = RainNoise(at).mem /\ heap = RainNoise(at).heap
          /\ playCounts = RainNoiseCounts
          /\ skippedSongs = <<>>
  /\ tally = Appended(Collect(mem, head))

\* The selection auto-replay computes (cases 12 and 13 of main).
SelectTop3 ==
  /\ lastOp.op = "start"
  /\ lastOp' = Op("select", <<>>, getTop3CalmingSongs(get_all_songs(PL), mem, playCounts, skippedSongs))
  /\ playCounts' = CountsAfterSelect(get_all_songs(PL), 1, mem, playCounts, skippedSongs)
  /\ steps' = steps + 1
  /\ UNCHANGED <<head, tail, mem, heap, history, ratingMap, lookup, skippedSongs,
                 recentlyAdded, currentIndex, isPlaying, currentSong, file, uaf, touchTime,
                 titleClash, reader, tally>>

SelectorNext == SelectTop3

SpecSelector == SelectorInit /\ [][SelectorNext]_vars

Selected == lastOp.op = "select"
Result == lastOp.ret

\* The candidates: the catalog's calming songs that are not in the skip window.
Eligible == {a \in Range(Catalog) : isCalming(mem[a].genre) /\ ~isRecentlySkipped(skippedSongs, a)}
Plays(a) == CountOf(playCounts, mem[a].title)
CatalogPos(a) == IndexOf(Catalog, a)

\* C8: the selection holds no song of the skip window.
C8_SelectionExcludesSkipped ==
  Selected => \A i \in 1..Len(Result) : ~isRecentlySkipped(skippedSongs, Result[i])

\* A selection was made while a calming song of the catalog was in the skip window.
C8_Witness ==
  /\ Selected /\ Result # <<>>
  /\ \E a \in Range(Catalog) : isCalming(mem[a].genre) /\ isRecentlySkipped(skippedSongs, a)

\* C9: of two candidates with equal play counts, the one earlier in the catalog is
\* ranked first, and is the one kept when only one of them is selected.
C9_TiesInCatalogOrder ==
  Selected =>
    /\ \A i, j \in 1..Len(Result) :
         (i < j /\ Plays(Result[i]) = Plays(Result[j])) => CatalogPos(Result[i]) < CatalogPos(Result[j])
    /\ \A a \in Eligible \ Range(Result) : \A i \in 1..Len(Result) :
         Plays(a) = Plays(Result[i]) => CatalogPos(Result[i]) < CatalogPos(a)

\* C10: the selection is ordered by non-increasing play count, a title without an
\* entry counting as 0, and no candidate left out has more plays than a selected song.
C10_SelectionByPlayCount ==
  Selected =>
    /\ \A i, j \in 1..Len(Result) : i < j => Plays(Result[i]) >= Plays(Result[j])
    /\ \A a \in Eligible \ Range(Result) : \A i \in 1..Len(Result) : Plays(a) <= Plays(Result[i])

\* Four candidates, played and never played, of which one was left out.
C10_Witness ==
  /\ Selected /\ Len(Result) = TOP_N /\ Eligible \ Range(Result) # {}
  /\ Plays(Result[1]) > Plays(Result[TOP_N])
  /\ \E a \in Eligible : mem[a].title \notin DOMAIN playCounts

\* C11: the selection holds only calming songs, each once, and exactly min(3, n) of
\* them, n being the number of calming songs of the catalog that are not in the
\* skip window; the counts of the other songs have no part in it: the selection is
\* the one made with the counts of the calming songs alone; and from the catalog
\* [Rain (Lo-Fi), Noise (Rock)] with counts Rain 3, Noise 5 it is [Rain].
CalmingCounts ==
  [t \in {u \in DOMAIN playCounts : \E a \in Range(Catalog) : mem[a].title = u /\ isCalming(mem[a].genre)}
     |-> playCounts[t]]

IsRainNoise ==
  /\ Len(Catalog) = 2 /\ mem[Catalog[1]].title = "Rain" /\ mem[Catalog[2]].title = "Noise"
  /\ playCounts = RainNoiseCounts /\ skippedSongs = <<>>

C11_SelectionOnlyCalmingUpToThree ==
  Selected =>
    /\ \A i \in 1..Len(Result) : Result[i] \in Range(Catalog) /\ isCalming(mem[Result[i]].genre)
    /\ NoDup(Result)
    /\ Len(Result) = (IF Cardinality(Eligible) < 3 THEN Cardinality(Eligible) ELSE 3)
    /\ Result = getTop3CalmingSongs(Catalog, mem, CalmingCounts, skippedSongs)
    /\ IsRainNoise => Result = <<Catalog[1]>>

\* The selection from [Rain, Noise] has been made: Noise, played more often, is not in it.
C11_Witness ==
  /\ Selected /\ IsRainNoise /\ Len(Result) = 1
  /\ Plays(Catalog[2]) > Plays(Result[1])

\* C12: computing the selection leaves the catalog (its songs, their order and
\* their links), the play-count map and the skip window as they were.
C12_SelectionMutatesNothing ==
  [][lastOp'.op = "select" =>
       /\ Catalog' = Catalog /\ head' = head /\ tail' = tail /\ mem' = mem /\ heap' = heap
       /\ playCounts' = playCounts
       /\ skippedSongs' = skippedSongs]_vars

\* A selection was made that read the count of a calming song never played, with
\* a song in the skip window.
C12_Witness ==
  /\ Selected /\ skippedSongs # <<>>
  /\ \E i \in 1..Len(Result) : mem[Result[i]].title \notin DOMAIN playCounts


\* ------------------------------------------------- the playlist on its own
\* The Playlist object under add_song, delete_song, move_song and reverse_playlist
\* alone, started from the playlists add_song builds, with indexes from below 0 to
\* past the end.  lastOp.ret is the playlist before the operation.
ListAddr == 1..MaxNodes
ListIndexes == -1..(MaxNodes + 1)

ListEmpty == [head |-> NULL, tail |-> NULL, mem |-> [a \in ListAddr |-> NoSong], heap |-> {}]

\* The playlist of n songs, song k at address k.
BuiltList(n) == Built(ListEmpty, 1, n, [i \in 1..n |-> i], [i \in 1..n |-> Rock])

PlaylistInit ==
  /\ history = <<>> /\ ratingMap = <<>> /\ lookup = <<>> /\ playCounts = <<>>
  /\ skippedSongs = <<>> /\ recentlyAdded = <<>>
  /\ currentIndex = -1 /\ isPlaying = FALSE /\ currentSong = NULL
  /\ file = NoFile /\ uaf = FALSE /\ titleClash = FALSE /\ reader = NoReader /\ steps = 0
  /\ touchTime = NoTouchTime
  /\ lastOp = Op("start", <<>>, NULL)
  /\ \E n \in 0..MaxNodes :
       /\ head = BuiltList(n).head /\ tail = BuiltList(n).tail
       /\ mem = BuiltList(n).mem /\ heap = BuiltList(n).heap
       /\ tally = Appended([i \in 1..n |-> i])

ListFrame ==
  UNCHANGED <<history, ratingMap, lookup, playCounts, skippedSongs, recentlyAdded,
              currentIndex, isPlaying, currentSong, file, uaf, touchTime, titleClash, reader>>

ListStep(name, args, added, removed, reorders) ==
  /\ lastOp' = Op(name, args, PL)
  /\ steps' = steps + 1
  /\ tally' = TallyAfter(added, removed, reorders)

ListAdd ==
  /\ steps < MaxListOps
  /\ \E a \in ListAddr \ heap :
       /\ SetPlaylist(add_song(PL, a, SelTitles[a], "x", Rock, 200))
       /\ ListStep("add_song", <<a>>, <<a>>, {}, FALSE)
  /\ ListFrame

ListDelete ==
  /\ steps < MaxListOps
  /\ \E index \in ListIndexes :
       /\ SetPlaylist(delete_song(PL, index))
       /\ ListStep("delete_song", <<index>>, <<>>, heap \ delete_song(PL, index).heap, FALSE)
  /\ ListFrame

ListMove ==
  /\ steps < MaxListOps
  /\ \E from \in ListIndexes, to \in ListIndexes :
       /\ SetPlaylist(move_song(PL, from, to))
       /\ ListStep("move_song", <<from, to>>, <<>>, {}, TRUE)
  /\ ListFrame

\* The arguments recorded are the operation that preceded and the playlist before it.
ListReverse ==
  /\ steps < MaxListOps
  /\ SetPlaylist(reverse_playlist(PL))
  /\ ListStep("reverse_playlist", <<lastOp.op, lastOp.ret>>, <<>>, {}, TRUE)
  /\ ListFrame

PlaylistNext == ListAdd \/ ListDelete \/ ListMove \/ ListReverse

SpecPlaylist == PlaylistInit /\ [][PlaylistNext]_vars


\* In a state an operation on the playlist produced: the catalog before it, its
\* arguments, and the song that was at from_index.
ListBefore == get_all_songs(lastOp.ret)
Deleted == lastOp.op = "delete_song"
Moved == lastOp.op = "move_song"
Reversed == lastOp.op = "reverse_playlist"
FromIndex == lastOp.args[1]
ToIndex == lastOp.args[2]
InRange(i, s) == 0 <= i /\ i < Len(s)

\* The traversal from the tail along prev.
RECURSIVE CollectBack(_, _)
CollectBack(m, temp) == IF temp = NULL THEN <<>> ELSE <<temp>> \o CollectBack(m, m[temp].prev)

\* C13: in every state add_song, delete_song, move_song and reverse_playlist reach,
\* the links are symmetric: x.next.prev = x and x.prev.next = x wherever the
\* neighbour exists, the head has no predecessor and the tail no successor, and the
\* traversal back from the tail visits the songs of the traversal from the head in
\* the opposite order.
C13_LinksSymmetric ==
  /\ \A x \in heap :
       /\ mem[x].next # NULL => (mem[x].next \in heap /\ mem[mem[x].next].prev = x)
       /\ mem[x].prev # NULL => (mem[x].prev \in heap /\ mem[mem[x].prev].next = x)
  /\ (head = NULL) = (tail = NULL)
  /\ head # NULL => (head \in heap /\ mem[head].prev = NULL)
  /\ tail # NULL => (tail \in heap /\ mem[tail].next = NULL)
  /\ CollectBack(mem, tail) = Reverse(Catalog)

\* A song was moved between two others, in a playlist whose first song was not the
\* first appended.
C13_Witness ==
  /\ Moved /\ Len(Catalog) >= 3 /\ Catalog # ListBefore
  /\ tally.order # <<>> /\ ListBefore[1] # tally.order[1]
  /\ InRange(FromIndex, ListBefore) /\ Catalog[2] = ListBefore[FromIndex + 1]

\* C14: after move_song(from_index, to_index) with both indexes within the catalog
\* and different, the song that was at from_index is at to_index; move_song(0, 2)
\* on [A, B, C] gives [B, C, A].
C14_MovedSongIsAtToIndex ==
  (Moved /\ InRange(FromIndex, ListBefore) /\ InRange(ToIndex, ListBefore) /\ FromIndex # ToIndex)
    => /\ Len(Catalog) = Len(ListBefore)
       /\ Catalog[ToIndex + 1] = ListBefore[FromIndex + 1]
       /\ (Len(ListBefore) = 3 /\ FromIndex = 0 /\ ToIndex = 2)
            => Catalog = <<ListBefore[2], ListBefore[3], ListBefore[1]>>

\* C15: delete_song(index) leaves the playlist as it was when the playlist is empty
\* or index is not within 0..length-1, a negative index included.
C15_DeleteOutOfRangeChangesNothing ==
  (Deleted /\ ~InRange(FromIndex, ListBefore)) => PL = lastOp.ret

\* C16: as long as neither move_song nor reverse_playlist was called, the catalog's
\* length is the number of songs appended minus the number of songs removed, and
\* the songs that remain are in the order in which they were appended.
C16_AppendOrderKept ==
  ~tally.reordered =>
    /\ Len(Catalog) = tally.appends - tally.removals
    /\ Catalog = tally.order

\* A song was appended at an address a removal had freed, neither move nor reverse
\* having been called.
C16_Witness ==
  /\ ~tally.reordered /\ lastOp.op = "add_song" /\ tally.removals > 0
  /\ Len(Catalog) >= 3 /\ Catalog[Len(Catalog)] < Catalog[1]

\* C17: reverse_playlist called twice in a row restores the order the catalog had
\* before the first call.
C17_ReverseTwiceRestores ==
  (Reversed /\ lastOp.args[1] = "reverse_playlist") => Catalog = get_all_songs(lastOp.args[2])

\* Two calls in a row were made on a playlist of three songs or more.
C17_Witness ==
  /\ Reversed /\ lastOp.args[1] = "reverse_playlist"
  /\ Len(Catalog) >= 3 /\ ListBefore # Catalog

\* C18: the catalog after reverse_playlist is the catalog before it in reverse
\* order, the empty and the one-song playlist included.
C18_ReverseReverses == Reversed => Catalog = Reverse(ListBefore)

\* A playlist of three songs or more, reordered by a move, was reversed.
C18_Witness ==
  /\ Reversed /\ lastOp.args[1] = "move_song" /\ Len(ListBefore) >= 3
  /\ Catalog[1] = ListBefore[Len(ListBefore)]

\* C19: move_song(from_index, to_index) leaves the playlist as it was when the
\* indexes are equal, when the playlist is empty, or when from_index is not below
\* its length.
C19_MoveNoOp ==
  (Moved /\ (FromIndex = ToIndex \/ ListBefore = <<>> \/ FromIndex >= Len(ListBefore)))
    => PL = lastOp.ret

\* move_song was called with from_index past the end of a playlist of several
\* songs and to_index within it.
C19_Witness ==
  /\ Moved /\ Len(ListBefore) >= 2 /\ FromIndex >= Len(ListBefore)
  /\ InRange(ToIndex, ListBefore) /\ Catalog = ListBefore

\* C20: with from_index within the catalog, move_song with to_index not below the
\* length leaves the moved song last, and with to_index = 0 leaves it first; after
\* both, head is the first song and tail the last, of the same songs as before.
AnchorsRight ==
  /\ Catalog # <<>> /\ head = Catalog[1] /\ tail = Catalog[Len(Catalog)]
  /\ mem[head].prev = NULL /\ mem[tail].next = NULL
  /\ CollectBack(mem, tail) = Reverse(Catalog)

C20_MoveToEnds ==
  (Moved /\ InRange(FromIndex, ListBefore) /\ FromIndex # ToIndex) =>
    /\ ToIndex >= Len(ListBefore) =>
         /\ Catalog = Without(ListBefore, ListBefore[FromIndex + 1]) \o <<ListBefore[FromIndex + 1]>>
         /\ AnchorsRight
    /\ ToIndex = 0 =>
         /\ Catalog = <<ListBefore[FromIndex + 1]>> \o Without(ListBefore, ListBefore[FromIndex + 1])
         /\ AnchorsRight

\* The last song of a playlist of three or more was moved to the front.
C20_Witness ==
  /\ Moved /\ Len(ListBefore) >= 3 /\ FromIndex = Len(ListBefore) - 1 /\ ToIndex = 0
  /\ head = ListBefore[Len(ListBefore)] /\ tail = ListBefore[Len(ListBefore) - 1]


\* --------------------------------------------------- the player on its own
\* The PlaylistPlayer under playEntirePlaylist, playNext and playPrevious, with
\* songs deleted from the playlist in between, started from the playlists add_song
\* builds.  lastOp.args is what the method returned (for the void method, whether
\* the playlist had songs); lastOp.ret is the player, the history, the play counts
\* and the catalog before the operation.
PlayerBefore ==
  [player |-> Player, history |-> history, playCounts |-> playCounts, songs |-> get_all_songs(PL)]

PlayerInit ==
  /\ history = <<>> /\ ratingMap = <<>> /\ lookup = <<>> /\ playCounts = <<>>
  /\ skippedSongs = <<>> /\ recentlyAdded = <<>>
  /\ currentIndex = NewPlayer.currentIndex /\ isPlaying = NewPlayer.isPlaying
  /\ currentSong = NewPlayer.currentSong
  /\ file = NoFile /\ uaf = FALSE /\ titleClash = FALSE /\ reader = NoReader /\ steps = 0
  /\ touchTime = NoTouchTime
  /\ lastOp = Op("start", <<>>, NULL)
  /\ \E n \in 0..MaxNodes :
       /\ head = BuiltList(n).head /\ tail = BuiltList(n).tail
       /\ mem = BuiltList(n).mem /\ heap = BuiltList(n).heap
       /\ tally = Appended([i \in 1..n |-> i])

PlayerRunning == steps < MaxPlayerOps /\ lastOp.op # "crash"

PlayerFrame ==
  UNCHANGED <<ratingMap, lookup, skippedSongs, recentlyAdded, file, touchTime, titleClash, reader>>

PlayerPlayAll ==
  /\ PlayerRunning
  /\ LET r == playEntirePlaylist(PL, history, playCounts, Player)
     IN  /\ SetPlayer(r.player)
         /\ history' = r.history /\ playCounts' = r.playCounts
         /\ lastOp' = Op("playEntirePlaylist", <<get_all_songs(PL) # <<>> >>, PlayerBefore)
  /\ steps' = steps + 1
  /\ UNCHANGED <<head, tail, mem, heap, uaf, tally>>
  /\ PlayerFrame

PlayerNext ==
  /\ PlayerRunning
  /\ LET r == playNext(PL, history, playCounts, Player)
     IN  /\ SetPlayer(r.player)
         /\ history' = r.history /\ playCounts' = r.playCounts
         /\ lastOp' = Op("playNext", <<r.ok>>, PlayerBefore)
  /\ steps' = steps + 1
  /\ UNCHANGED <<head, tail, mem, heap, uaf, tally>>
  /\ PlayerFrame

\* When the new index is past the end of the vector, songs[currentIndex] yields any
\* Song* (`wild`): through NULL the program crashes; through a dangling pointer any
\* title is read.
PlayerPrevious ==
  /\ PlayerRunning
  /\ \E wild \in ListAddr \cup {NULL}, wildTitle \in TitleRead :
       LET r == playPrevious(PL, history, playCounts, Player, wild, wildTitle)
       IN  /\ r.inRange => (wild = NULL /\ wildTitle = Garbage)
           /\ (~r.inRange /\ wild \in heap) => wildTitle = mem[wild].title
           /\ (~r.inRange /\ wild = NULL) => wildTitle = Garbage
           /\ IF ~r.inRange /\ wild = NULL
              THEN /\ lastOp' = Op("crash", <<"playPrevious">>, PlayerBefore)
                   /\ UNCHANGED <<currentIndex, isPlaying, currentSong, history, playCounts, uaf>>
              ELSE /\ SetPlayer(r.player)
                   /\ history' = r.history /\ playCounts' = r.playCounts
                   /\ lastOp' = Op("playPrevious", <<r.ok>>, PlayerBefore)
                   /\ uaf' = (uaf \/ (~r.inRange /\ wild \notin heap))
  /\ steps' = steps + 1
  /\ UNCHANGED <<head, tail, mem, heap, tally>>
  /\ PlayerFrame

PlayerDelete ==
  /\ PlayerRunning
  /\ \E index \in 0..(MaxNodes - 1) :
       /\ SetPlaylist(delete_song(PL, index))
       /\ lastOp' = Op("delete_song", <<index>>, PlayerBefore)
       /\ tally' = TallyAfter(<<>>, heap \ delete_song(PL, index).heap, FALSE)
  /\ steps' = steps + 1
  /\ UNCHANGED <<history, playCounts, currentIndex, isPlaying, currentSong, uaf>>
  /\ PlayerFrame

PlayerSpecNext == PlayerPlayAll \/ PlayerNext \/ PlayerPrevious \/ PlayerDelete

SpecPlayer == PlayerInit /\ [][PlayerSpecNext]_vars

PlayedNext == lastOp.op = "playNext"
PlayedPrevious == lastOp.op = "playPrevious"
Succeeded == lastOp.args[1]
IndexBefore == lastOp.ret.player.currentIndex

\* C21: playNext, when index + 1 is below the length of the catalog, adds exactly 1
\* to the index and the player is playing the song at that index; otherwise it
\* reports the end and the player is no longer playing.
C21_NextAdvancesOrStops ==
  PlayedNext =>
    IF IndexBefore + 1 < Len(Catalog)
    THEN /\ Succeeded /\ currentIndex = IndexBefore + 1 /\ isPlaying
         /\ currentSong = Catalog[currentIndex + 1]
    ELSE ~Succeeded /\ ~isPlaying

\* C22: playPrevious, when the index is above 0, subtracts exactly 1 from the index
\* and plays the song of the catalog at the new index; when the index is 0 or less
\* it reports failure and leaves index, playing flag and current song as they were.
C22_PreviousDecrementsOrNoOp ==
  /\ lastOp.op = "crash" => lastOp.ret.player.currentIndex <= 0
  /\ PlayedPrevious =>
       IF IndexBefore > 0
       THEN /\ Succeeded /\ currentIndex = IndexBefore - 1 /\ isPlaying
            /\ InRange(currentIndex, Catalog) /\ currentSong = Catalog[currentIndex + 1]
       ELSE ~Succeeded /\ Player = lastOp.ret.player

\* C23: a playNext or playPrevious that succeeds pushes one entry, the new current
\* song, onto the history and adds exactly 1 to the count of that song's title,
\* every other count staying; one that fails leaves history and counts as they were.
OneMorePlayOf(title) ==
  /\ DOMAIN playCounts = DOMAIN lastOp.ret.playCounts \cup {title}
  /\ playCounts[title] = CountOf(lastOp.ret.playCounts, title) + 1
  /\ \A t \in DOMAIN playCounts \ {title} : playCounts[t] = lastOp.ret.playCounts[t]

C23_PlayEventOnSuccessOnly ==
  (PlayedNext \/ PlayedPrevious) =>
    IF Succeeded
    THEN /\ history = Append(lastOp.ret.history, currentSong)
         /\ IF currentSong \in heap THEN OneMorePlayOf(mem[currentSong].title)
            ELSE \E title \in TitleRead : OneMorePlayOf(title)
    ELSE history = lastOp.ret.history /\ playCounts = lastOp.ret.playCounts

\* playPrevious succeeded on a song that had been played before.
C23_Witness ==
  /\ PlayedPrevious /\ Succeeded /\ currentSong \in heap
  /\ playCounts[mem[currentSong].title] >= 2 /\ Len(history) >= 3


\* C24: in a session no operation lowers the count of a title or drops a title
\* from the play counts; an individual play adds exactly 1 to the count of the
\* title played; and a traversal of the playlist, a step of the player and an
\* auto-replay add to each title's count exactly the number of entries with that
\* title which the operation pushed onto the history.
Pushed(h, h2, m, t) == {i \in (Len(h) + 1)..Len(h2) : m[h2[i]].title = t}

C24_PlayCountsOnlyGrow ==
  [][/\ \A t \in DOMAIN playCounts : t \in DOMAIN playCounts' /\ playCounts'[t] >= playCounts[t]
     /\ lastOp'.op \notin {"play", "play_all", "next", "previous"} => playCounts' = playCounts
     /\ (lastOp'.op = "play" /\ lastOp'.ret # NULL) =>
          /\ history' = Append(history, lastOp'.ret)
          /\ CountOf(playCounts', lastOp'.args[1]) = CountOf(playCounts, lastOp'.args[1]) + 1
          /\ \A t \in DOMAIN playCounts' \ {lastOp'.args[1]} : playCounts'[t] = CountOf(playCounts, t)
     /\ (lastOp'.op \in {"play_all", "next"} \/ (lastOp'.op = "previous" /\ lastOp'.args[2])) =>
          /\ SubSeq(history', 1, Len(history)) = history
          /\ \A t \in Titles \cup DOMAIN playCounts' :
               CountOf(playCounts', t) = CountOf(playCounts, t) + Cardinality(Pushed(history, history', mem, t))
    ]_vars

\* The playlist was played through and the auto-replay that followed played a
\* song again: its title was counted twice.
C24_Witness ==
  /\ lastOp.op = "play_all" /\ lastOp.ret # <<>>
  /\ \E i \in 1..Len(lastOp.ret) : playCounts[mem[lastOp.ret[i]].title] >= 2


\* ------------------------------------------------------- startAutoReplay on its own
\* startAutoReplay applied once to every selection of up to TOP_N songs of a
\* playlist of up to MaxNodes songs (a song may be selected more than once), on a
\* history and a play-count map that are empty or hold an earlier play of song 1.
Selections(songs) == UNION {[1..m -> Range(songs)] : m \in 0..TOP_N}

ReplayInit ==
  /\ ratingMap = <<>> /\ lookup = <<>>
  /\ skippedSongs = <<>> /\ recentlyAdded = <<>>
  /\ currentIndex = NewPlayer.currentIndex /\ isPlaying = NewPlayer.isPlaying
  /\ currentSong = NewPlayer.currentSong
  /\ file = NoFile /\ uaf = FALSE /\ titleClash = FALSE /\ reader = NoReader /\ steps = 0
  /\ touchTime = NoTouchTime
  /\ lastOp = Op("start", <<>>, NULL)
  /\ \E n \in 0..MaxNodes :
       /\ head = BuiltList(n).head /\ tail = BuiltList(n).tail
       /\ mem = BuiltList(n).mem /\ heap = BuiltList(n).heap
       /\ tally = Appended([i \in 1..n |-> i])
       /\ \E played \in 0..(IF n > 0 THEN 2 ELSE 0) :
            /\ history = [i \in 1..played |-> 1]
            /\ playCounts = IF played = 0 THEN <<>> ELSE (TitleOrder[1] :> played)

ReplaySelection ==
  /\ lastOp.op = "start"
  /\ \E calmingSongs \in Selections(get_all_songs(PL)) :
       LET r == startAutoReplay(calmingSongs, history, playCounts, LiveTitle(mem))
       IN  /\ history' = r.history /\ playCounts' = r.playCounts
           /\ lastOp' = Op("startAutoReplay", <<calmingSongs>>, NULL)
  /\ steps' = steps + 1
  /\ UNCHANGED <<head, tail, mem, heap, ratingMap, lookup, skippedSongs, recentlyAdded,
                 currentIndex, isPlaying, currentSong, file, uaf, touchTime, titleClash, reader, tally>>

ReplayNext == ReplaySelection

SpecReplay == ReplayInit /\ [][ReplayNext]_vars

\* C25: startAutoReplay on a selection of m songs appends exactly those m songs to
\* the playback history in the order of the selection, adds to the play count of
\* each title one per selected song of that title (1 for a song selected once),
\* gives a count to no other title and changes nothing else: not the playlist,
\* the songs, the ratings, the title index, the trackers, the player or the file.
\* With an empty selection the history and the play counts are unchanged.
SelectedOf(sel, m, t) == {i \in 1..Len(sel) : m[sel[i]].title = t}

C25_ReplayPushesAndCounts ==
  [][lastOp'.op = "startAutoReplay" =>
       LET sel == lastOp'.args[1]
       IN  /\ history' = history \o sel
           /\ DOMAIN playCounts' = DOMAIN playCounts \cup {mem[sel[i]].title : i \in 1..Len(sel)}
           /\ \A t \in DOMAIN playCounts' :
                playCounts'[t] = CountOf(playCounts, t) + Cardinality(SelectedOf(sel, mem, t))
           /\ sel = <<>> => history' = history /\ playCounts' = playCounts
           /\ UNCHANGED <<head, tail, mem, heap, ratingMap, lookup, skippedSongs, recentlyAdded,
                          currentIndex, isPlaying, currentSong, file>>
    ]_vars

\* Three different songs were replayed on top of an earlier history; one of them
\* had been played before and one had not.
C25_Witness ==
  /\ lastOp.op = "startAutoReplay"
  /\ Len(lastOp.args[1]) = TOP_N /\ NoDup(lastOp.args[1])
  /\ Len(history) = TOP_N + 2
  /\ history[Len(history)] # 1 /\ history[Len(history) - 1] = 1
  /\ playCounts[TitleOrder[1]] = 3 /\ playCounts[mem[history[Len(history)]].title] = 1


\* ------------------------------------------------------ SongRatingTree on its own
\* Up to MaxRatingOps calls of insert_song, search_by_rating and delete_song on a
\* fresh SongRatingTree, with two Song* and the lowest and the highest rating.
\* lastOp.ret is the map before the call; tally logs, per rating, the songs
\* inserted under it in order, and the ratings delete_song was called with.
MaxRatingOps == 4
RatedSongs == {1, 2}
RatedWith == {MIN_RATING, MAX_RATING}

RatingInit ==
  /\ head = NULL /\ tail = NULL /\ mem = [a \in ListAddr |-> NoSong] /\ heap = {}
  /\ history = <<>> /\ ratingMap = <<>> /\ lookup = <<>> /\ playCounts = <<>>
  /\ skippedSongs = <<>> /\ recentlyAdded = <<>>
  /\ currentIndex = NewPlayer.currentIndex /\ isPlaying = NewPlayer.isPlaying
  /\ currentSong = NewPlayer.currentSong
  /\ file = NoFile /\ uaf = FALSE /\ titleClash = FALSE /\ reader = NoReader /\ steps = 0
  /\ touchTime = NoTouchTime
  /\ lastOp = Op("start", <<>>, <<>>)
  /\ tally = [inserted |-> [r \in RatedWith |-> <<>>], deleted |-> {}]

RatingFrame ==
  UNCHANGED <<head, tail, mem, heap, history, lookup, playCounts, skippedSongs, recentlyAdded,
              currentIndex, isPlaying, currentSong, file, uaf, touchTime, titleClash, reader>>

RatingInsert ==
  /\ steps < MaxRatingOps
  /\ \E song \in RatedSongs, rating \in RatedWith :
       /\ ratingMap' = insert_song(ratingMap, song, rating)
       /\ lastOp' = Op("insert_song", <<song, rating>>, ratingMap)
       /\ tally' = [tally EXCEPT !.inserted[rating] = Append(@, song)]
  /\ steps' = steps + 1
  /\ RatingFrame

RatingSearch ==
  /\ steps < MaxRatingOps
  /\ \E rating \in RatedWith :
       LET r == search_by_rating(ratingMap, rating)
       IN  /\ ratingMap' = r.ratingMap
           /\ lastOp' = Op("search_by_rating", <<rating, r.songs>>, ratingMap)
  /\ steps' = steps + 1
  /\ UNCHANGED tally
  /\ RatingFrame

RatingDelete ==
  /\ steps < MaxRatingOps
  /\ \E song \in RatedSongs, rating \in RatedWith :
       /\ ratingMap' = srt_delete_song(ratingMap, song, rating)
       /\ lastOp' = Op("delete_song", <<song, rating>>, ratingMap)
       /\ tally' = [tally EXCEPT !.deleted = @ \cup {rating}]
  /\ steps' = steps + 1
  /\ RatingFrame

RatingNext == RatingInsert \/ RatingSearch \/ RatingDelete

SpecRating == RatingInit /\ [][RatingNext]_vars

\* The group of a rating in a map: the empty sequence when the map has no such key.
Group(rm, rating) == IF rating \in DOMAIN rm THEN rm[rating] ELSE <<>>

\* s without its first occurrence of song.
RemoveFirst(s, song) == IF song \in Range(s) THEN RemoveAt(s, IndexOf(s, song)) ELSE s

\* C26: delete_song(song, rating) takes only the first occurrence of song out of
\* the group of that rating: later occurrences stay, the other songs keep their
\* order, the other groups are unchanged, and a group that does not hold the
\* song is left as it was.
C26_DeleteRemovesFirstOccurrenceOnly ==
  lastOp.op = "delete_song" =>
    /\ Group(ratingMap, lastOp.args[2]) = RemoveFirst(Group(lastOp.ret, lastOp.args[2]), lastOp.args[1])
    /\ \A r \in RatedWith \ {lastOp.args[2]} : Group(ratingMap, r) = Group(lastOp.ret, r)

\* C27: while delete_song has not been called with a rating, search_by_rating of
\* that rating returns the songs inserted under it in the order of insertion,
\* each as often as it was inserted; for a rating nothing was inserted under it
\* returns the empty sequence.
C27_SearchReturnsInsertionOrder ==
  lastOp.op = "search_by_rating" =>
    /\ lastOp.args[1] \notin tally.deleted => lastOp.args[2] = tally.inserted[lastOp.args[1]]
    /\ tally.inserted[lastOp.args[1]] = <<>> => lastOp.args[2] = <<>>

\* A search returned three entries, two of them the same song, under a rating
\* that no delete_song was called with.
C27_Witness ==
  /\ lastOp.op = "search_by_rating" /\ lastOp.args[1] \notin tally.deleted
  /\ Len(lastOp.args[2]) = 3 /\ ~NoDup(lastOp.args[2])
  /\ lastOp.args[2][1] # lastOp.args[2][2]


\* ---------------------------------------------------- the text of playwise_data.txt
\* A string is the sequence of its characters and the file is the sequence of its
\* lines: save_all_data ends every line with "\n", load_all_data reads with getline.
DigitChars == <<"0", "1", "2", "3", "4", "5", "6", "7", "8", "9">>

IsDigit(c) == \E d \in 1..10 : DigitChars[d] = c
DigitValue(c) == (CHOOSE d \in 1..10 : DigitChars[d] = c) - 1

RECURSIVE Digits(_)
Digits(n) == IF n < 10 THEN <<DigitChars[n + 1]>> ELSE Digits(n \div 10) \o <<DigitChars[(n % 10) + 1]>>

\* file << int
FormatInt(n) == IF n < 0 THEN <<"-">> \o Digits(-n) ELSE Digits(n)

\* The first index at or after i that holds no white space.
RECURSIVE SkipSpace(_, _)
SkipSpace(str, i) == IF i <= Len(str) /\ str[i] = " " THEN SkipSpace(str, i + 1) ELSE i

\* The first index at or after i that holds no digit.
RECURSIVE SkipDigits(_, _)
SkipDigits(str, i) == IF i <= Len(str) /\ IsDigit(str[i]) THEN SkipDigits(str, i + 1) ELSE i

RECURSIVE DigitsValue(_, _, _, _)
DigitsValue(str, i, end, acc) ==
  IF i >= end THEN acc ELSE DigitsValue(str, i + 1, end, 10 * acc + DigitValue(str[i]))

\* std::stoi: white space, an optional sign, then digits up to the first other
\* character; std::invalid_argument when there is no digit.
stoi(str) ==
  LET i == SkipSpace(str, 1)
      signed == i <= Len(str) /\ str[i] \in {"-", "+"}
      from == IF signed THEN i + 1 ELSE i
      end == SkipDigits(str, from)
  IN  IF end = from THEN [thrown |-> TRUE, value |-> 0]
      ELSE [thrown |-> FALSE,
            value |-> IF signed /\ str[i] = "-" THEN 0 - DigitsValue(str, from, end, 0)
                      ELSE DigitsValue(str, from, end, 0)]

\* The index of the first ',' at or after i, or Len(str) + 1.
RECURSIVE NextComma(_, _)
NextComma(str, i) == IF i > Len(str) \/ str[i] = "," THEN i ELSE NextComma(str, i + 1)

\* n calls of getline(ss, field, ',') on a stringstream over str that stands at
\* index i: each takes the characters up to the next ',' or the end, and gives
\* the empty string once the stream is at its end.
RECURSIVE GetFields(_, _, _)
GetFields(str, i, n) ==
  IF n = 0 THEN <<>>
  ELSE IF i > Len(str) THEN <<<<>>>> \o GetFields(str, i, n - 1)
  ELSE <<SubSeq(str, i, NextComma(str, i) - 1)>> \o GetFields(str, NextComma(str, i) + 1, n - 1)

SONGS == <<"[", "S", "O", "N", "G", "S", "]">>
PLAY_COUNTS == <<"[", "P", "L", "A", "Y", "_", "C", "O", "U", "N", "T", "S", "]">>
RATINGS == <<"[", "R", "A", "T", "I", "N", "G", "S", "]">>
HISTORY == <<"[", "H", "I", "S", "T", "O", "R", "Y", "]">>
SKIPPED == <<"[", "S", "K", "I", "P", "P", "E", "D", "]">>
RECENT_ADDED == <<"[", "R", "E", "C", "E", "N", "T", "_", "A", "D", "D", "E", "D", "]">>
END == <<"[", "E", "N", "D", "]">>

\* The orders in which a loop over an unordered_map with these keys can run.
KeyOrders(keys) ==
  {o \in [1..Cardinality(keys) -> keys] : \A i, j \in 1..Cardinality(keys) : o[i] = o[j] => i = j}

\* The lines save_all_data writes for the saved state f, the play counts in order o.
FileText(f, o) ==
  <<SONGS>>
    \o [i \in 1..Len(f.songs) |->
          f.songs[i][1] \o <<",">> \o f.songs[i][2] \o <<",">> \o f.songs[i][3] \o <<",">> \o FormatInt(f.songs[i][4])]
    \o <<PLAY_COUNTS>>
    \o [i \in 1..Len(o) |-> o[i] \o <<",">> \o FormatInt(f.playCounts[o[i]])]
    \o <<RATINGS>>
    \o [i \in 1..Len(f.ratings) |-> f.ratings[i][1] \o <<",">> \o FormatInt(f.ratings[i][2])]
    \o <<HISTORY>> \o f.history
    \o <<SKIPPED>> \o f.skipped
    \o <<RECENT_ADDED>> \o f.recent
    \o <<END>>


\* ------------------------------------------------------------------ load_all_data
\* The state load_all_data works on: the components main passes by reference,
\* the local `section`, and whether std::stoi threw out of the function.
Loaded(pl, lk, pc, rm, h, skipped, recent, section) ==
  [pl |-> pl, lookup |-> lk, playCounts |-> pc, ratingMap |-> rm, history |-> h,
   skippedSongs |-> skipped, recentlyAdded |-> recent, section |-> section, thrown |-> FALSE]

\* The [SONGS] branch without lookup.add(newSong).
LoadSongNoIndex(st, line, a) ==
  LET f == GetFields(line, 1, 4)
  IN  IF stoi(f[4]).thrown THEN [st EXCEPT !.thrown = TRUE]
      ELSE [st EXCEPT !.pl = add_song(st.pl, a, f[1], f[2], f[3], stoi(f[4]).value)]

\* The [SONGS] branch; the new Song is allocated at address a.
LoadSong(st, line, a) ==
  LET f == GetFields(line, 1, 4)
  IN  IF stoi(f[4]).thrown THEN [st EXCEPT !.thrown = TRUE]
      ELSE [st EXCEPT !.pl = add_song(st.pl, a, f[1], f[2], f[3], stoi(f[4]).value),
                      !.lookup = lookup_add(st.lookup, f[1], a)]

\* The [PLAY_COUNTS] branch.
LoadCount(st, line) ==
  LET f == GetFields(line, 1, 2)
  IN  IF stoi(f[2]).thrown THEN [st EXCEPT !.thrown = TRUE]
      ELSE [st EXCEPT !.playCounts =
              [t \in DOMAIN st.playCounts \cup {f[1]} |->
                 IF t = f[1] THEN stoi(f[2]).value ELSE st.playCounts[t]]]

\* The [RATINGS] branch.
LoadRating(st, line) ==
  LET f == GetFields(line, 1, 2)
      song == lookup_get(st.lookup, f[1])
  IN  IF song = NULL THEN st
      ELSE IF stoi(f[2]).thrown THEN [st EXCEPT !.thrown = TRUE]
      ELSE [st EXCEPT !.ratingMap = insert_song(st.ratingMap, song, stoi(f[2]).value)]

\* The [HISTORY] branch without `if (song)`.
LoadHistoryUnchecked(st, line) ==
  [st EXCEPT !.history = ph_add(st.history, lookup_get(st.lookup, line))]

\* The [HISTORY] branch.
LoadHistory(st, line) ==
  LET song == lookup_get(st.lookup, line)
  IN  IF song # NULL THEN [st EXCEPT !.history = ph_add(st.history, song)] ELSE st

\* The [SKIPPED] branch.
LoadSkipped(st, line) ==
  LET song == lookup_get(st.lookup, line)
  IN  IF song # NULL THEN [st EXCEPT !.skippedSongs = addSkippedSong(st.skippedSongs, song)] ELSE st

\* The [RECENT_ADDED] branch.
LoadRecent(st, line) ==
  LET song == lookup_get(st.lookup, line)
  IN  IF song # NULL THEN [st EXCEPT !.recentlyAdded = addRecentSong(st.recentlyAdded, song)] ELSE st

IsHeader(line) == line # <<>> /\ line[1] = "[" /\ line[Len(line)] = "]"

\* One turn of the while loop, on the line getline has read.
load_line(st, line, a) ==
  IF line = <<>> THEN st
  ELSE IF IsHeader(line) THEN [st EXCEPT !.section = line]
  ELSE IF st.section = SONGS THEN LoadSong(st, line, a)
  ELSE IF st.section = PLAY_COUNTS THEN LoadCount(st, line)
  ELSE IF st.section = RATINGS THEN LoadRating(st, line)
  ELSE IF st.section = HISTORY THEN LoadHistory(st, line)
  ELSE IF st.section = SKIPPED THEN LoadSkipped(st, line)
  ELSE IF st.section = RECENT_ADDED THEN LoadRecent(st, line)
  ELSE st

\* ------------------------------------------------- a session, exit and a new start
\* Up to MaxPersistOps of the menu's add, delete, rate, play and skip on a fresh
\* session with no data file, then exit (which saves) and a new start of the
\* program, whose load_all_data reads the file line by line. Strings are sequences
\* of characters. tally holds the phase, whether a song was deleted, and what the
\* session held when it was saved at exit.
MaxPersistSongs == 2
MaxPersistOps == 3

PAddr == 1..MaxPersistSongs
PTitles == {<<"a">>, <<"[", "a", "]">>, <<>>}
PArtists == {<<"x">>, <<"x", ",", "y">>}
PGenres == {Rock}
PGarbage == <<"?">>
PTitleRead == PTitles \cup {PGarbage}

\* The titles the reads of a save can produce: a live Song's own title; any title
\* or garbage through a dangling Song* that is read.
PersistReads(m, hp, reads) ==
  {f \in [PAddr -> PTitleRead \cup {m[a].title : a \in hp}] :
     \A a \in PAddr : /\ a \in hp => f[a] = m[a].title
                      /\ (a \notin hp /\ a \notin reads) => f[a] = PGarbage}

\* What the session holds: the catalog's songs in order, the (title, rating)
\* pairs of the rating tree, and the titles of the songs in the skip window.
SessionView(pl, rm, skipped) ==
  [songs |-> [i \in 1..Len(get_all_songs(pl)) |->
                <<pl.mem[get_all_songs(pl)[i]].title, pl.mem[get_all_songs(pl)[i]].artist,
                  pl.mem[get_all_songs(pl)[i]].genre, pl.mem[get_all_songs(pl)[i]].duration>>],
   ratings |-> UNION {{<<pl.mem[rm[r][i]].title, r>> : i \in 1..Len(rm[r])} : r \in DOMAIN rm},
   skipped |-> {pl.mem[skipped[i]].title : i \in 1..Len(skipped)}]

PersistInit ==
  /\ head = NULL /\ tail = NULL /\ mem = [a \in PAddr |-> NoSong] /\ heap = {}
  /\ history = <<>> /\ ratingMap = <<>> /\ lookup = <<>> /\ playCounts = <<>>
  /\ skippedSongs = <<>> /\ recentlyAdded = <<>>
  /\ currentIndex = NewPlayer.currentIndex /\ isPlaying = NewPlayer.isPlaying
  /\ currentSong = NewPlayer.currentSong
  /\ file = NoFile /\ uaf = FALSE /\ titleClash = FALSE /\ reader = NoReader /\ steps = 0
  /\ touchTime = NoTouchTime
  /\ lastOp = Op("start", <<>>, NULL)
  /\ tally = [phase |-> "session", deleted |-> FALSE, session |-> NULL]

InSession == tally.phase = "session" /\ steps < MaxPersistOps

\* autoSave() on the state the handler leaves.
PersistSave(pl, pc, rm, h, skipped, recent) ==
  /\ uaf' = (uaf \/ ~(SaveReads(rm, h, skipped, recent) \subseteq pl.heap))
  /\ \E rd \in PersistReads(pl.mem, pl.heap, SaveReads(rm, h, skipped, recent)) :
       file' = save_all_data(get_all_songs(pl), pl.mem, pc, rm, h, skipped, recent, rd)

PersistStep(name, args, ret) ==
  /\ lastOp' = Op(name, args, ret) /\ steps' = steps + 1
  /\ UNCHANGED <<currentIndex, isPlaying, currentSong, touchTime, reader>>

\* case 1
PersistAdd ==
  /\ InSession
  /\ \E title \in PTitles, artist \in PArtists, genre \in PGenres, duration \in Durations, a \in PAddr \ heap :
       LET pl == add_song(PL, a, title, artist, genre, duration)
           ra == addRecentSong(recentlyAdded, a)
       IN  /\ SetPlaylist(pl) /\ lookup' = lookup_add(lookup, title, a) /\ recentlyAdded' = ra
           /\ PersistSave(pl, playCounts, ratingMap, history, skippedSongs, ra)
           /\ PersistStep("add", <<title, artist>>, a)
           /\ titleClash' = (titleClash \/ \E x \in heap : mem[x].title = title)
  /\ UNCHANGED <<history, ratingMap, playCounts, skippedSongs, tally>>

\* case 2
PersistDelete ==
  /\ InSession
  /\ \E index \in {0} :
       LET pl == delete_song(PL, index)
       IN  /\ SetPlaylist(pl)
           /\ PersistSave(pl, playCounts, ratingMap, history, skippedSongs, recentlyAdded)
           /\ PersistStep("delete", <<index>>, heap \ pl.heap)
           /\ tally' = [tally EXCEPT !.deleted = @ \/ pl.heap # heap]
  /\ UNCHANGED <<history, ratingMap, lookup, playCounts, skippedSongs, recentlyAdded, titleClash>>

\* case 7
PersistRate ==
  /\ InSession
  /\ \E title \in PTitles, rating \in RatedWith :
       LET song == lookup_get(lookup, title)
       IN  /\ song # NULL
           /\ ratingMap' = insert_song(ratingMap, song, rating)
           /\ PersistSave(PL, playCounts, insert_song(ratingMap, song, rating), history,
                          skippedSongs, recentlyAdded)
           /\ PersistStep("rate", <<title, rating>>, song)
  /\ UNCHANGED <<head, tail, mem, heap, history, lookup, playCounts, skippedSongs, recentlyAdded,
                 titleClash, tally>>

\* case 11
PersistPlay ==
  /\ InSession
  /\ \E title \in PTitles :
       LET song == lookup_get(lookup, title)
       IN  /\ song # NULL
           /\ history' = ph_add(history, song)
           /\ playCounts' = IncCount(playCounts, title)
           /\ PersistSave(PL, IncCount(playCounts, title), ratingMap, ph_add(history, song),
                          skippedSongs, recentlyAdded)
           /\ PersistStep("play", <<title>>, song)
  /\ UNCHANGED <<head, tail, mem, heap, ratingMap, lookup, skippedSongs, recentlyAdded,
                 titleClash, tally>>

\* case 16
PersistSkip ==
  /\ InSession
  /\ \E title \in PTitles :
       LET song == lookup_get(lookup, title)
       IN  /\ song # NULL
           /\ skippedSongs' = addSkippedSong(skippedSongs, song)
           /\ PersistSave(PL, playCounts, ratingMap, history, addSkippedSong(skippedSongs, song),
                          recentlyAdded)
           /\ PersistStep("skip", <<title>>, song)
  /\ UNCHANGED <<head, tail, mem, heap, history, ratingMap, lookup, playCounts, recentlyAdded,
                 titleClash, tally>>

\* case 0 and the autoSave() after the loop; then the program is started again:
\* main constructs its components and load_all_data opens the file.
Restart ==
  /\ tally.phase = "session"
  /\ PersistSave(PL, playCounts, ratingMap, history, skippedSongs, recentlyAdded)
  /\ \E o \in KeyOrders(DOMAIN playCounts) :
       reader' = [is_open |-> TRUE, lines |-> FileText(file', o), pos |-> 1, section |-> <<>>]
  /\ head' = NULL /\ tail' = NULL /\ mem' = [a \in PAddr |-> NoSong] /\ heap' = {}
  /\ history' = <<>> /\ ratingMap' = <<>> /\ lookup' = <<>> /\ playCounts' = <<>>
  /\ skippedSongs' = <<>> /\ recentlyAdded' = <<>>
  /\ SetPlayer(NewPlayer)
  /\ lastOp' = Op("load_all_data", <<>>, NULL)
  /\ tally' = [tally EXCEPT !.phase = "loading", !.session = SessionView(PL, ratingMap, skippedSongs)]
  /\ UNCHANGED <<touchTime, titleClash, steps>>

Loading == Loaded(PL, lookup, playCounts, ratingMap, history, skippedSongs, recentlyAdded, reader.section)

\* What the line is to the loop: skipped, a header, or a line of the section.
LineKind(section, line) ==
  IF line = <<>> THEN "empty"
  ELSE IF IsHeader(line) THEN "header"
  ELSE IF section \in {SONGS, PLAY_COUNTS, RATINGS, HISTORY, SKIPPED, RECENT_ADDED} THEN "entry"
  ELSE "ignored"

\* while (getline(file, line)) { ... }: one line.
LoadLine ==
  /\ tally.phase = "loading" /\ reader.is_open /\ reader.pos <= Len(reader.lines)
  /\ LET line == reader.lines[reader.pos]
         adds == LineKind(reader.section, line) = "entry" /\ reader.section = SONGS
     IN  \E a \in IF adds THEN PAddr \ heap ELSE {NULL} :
           LET st == load_line(Loading, line, a)
           IN  /\ SetPlaylist(st.pl) /\ lookup' = st.lookup /\ playCounts' = st.playCounts
               /\ ratingMap' = st.ratingMap /\ history' = st.history
               /\ skippedSongs' = st.skippedSongs /\ recentlyAdded' = st.recentlyAdded
               /\ IF st.thrown
                  THEN /\ reader' = reader
                       /\ lastOp' = Op("crash", <<reader.section, line>>, NULL)
                       /\ tally' = [tally EXCEPT !.phase = "terminated"]
                  ELSE /\ reader' = [reader EXCEPT !.pos = @ + 1, !.section = st.section]
                       /\ lastOp' = Op("load_line", <<reader.section, line, LineKind(reader.section, line)>>, a)
                       /\ tally' = tally
  /\ UNCHANGED <<currentIndex, isPlaying, currentSong, file, uaf, touchTime, titleClash, steps>>

\* getline fails at the end of the file; file.close().
LoadEnd ==
  /\ tally.phase = "loading" /\ reader.is_open /\ reader.pos > Len(reader.lines)
  /\ reader' = [reader EXCEPT !.is_open = FALSE]
  /\ lastOp' = Op("loaded", <<>>, NULL)
  /\ tally' = [tally EXCEPT !.phase = "loaded"]
  /\ UNCHANGED <<head, tail, mem, heap, history, ratingMap, lookup, playCounts, skippedSongs,
                 recentlyAdded, currentIndex, isPlaying, currentSong, file, uaf, touchTime,
                 titleClash, steps>>

PersistNext ==
  \/ PersistAdd \/ PersistDelete \/ PersistRate \/ PersistPlay \/ PersistSkip
  \/ Restart \/ LoadLine \/ LoadEnd

SpecPersist == PersistInit /\ [][PersistNext]_vars


\* The session that was saved used add, rate, play and skip only, and the titles
\* of its songs are unique and free of commas.
RoundTripCase ==
  /\ tally.phase \in {"loading", "loaded", "terminated"}
  /\ ~tally.deleted /\ ~titleClash
  /\ \A i \in 1..Len(tally.session.songs) : "," \notin Range(tally.session.songs[i][1])

\* C28: when such a session is saved and the program started again, the load
\* runs to its end and leaves a catalog with the same songs in the same order
\* with the same title, artist, genre and duration, the same (title, rating)
\* assignments, and a skip window holding the songs of the same titles.
C28_RoundTrip ==
  RoundTripCase =>
    /\ tally.phase # "terminated"
    /\ tally.phase = "loaded" => SessionView(PL, ratingMap, skippedSongs) = tally.session


\* The sections whose lines name a song by its title.
ByTitle == {RATINGS, HISTORY, SKIPPED, RECENT_ADDED}

\* The title a line of such a section names.
TitleOf(section, line) == IF section = RATINGS THEN GetFields(line, 1, 1)[1] ELSE line

\* C29: when load_all_data reads, in [RATINGS], [HISTORY], [SKIPPED] or
\* [RECENT_ADDED], a line whose title the title index does not resolve, the
\* rating groups, the history and both recency windows stay as they are, nothing
\* is thrown, and the loop goes on to the next line of the file.
C29_UnresolvedTitleSkipped ==
  [][(/\ tally.phase = "loading" /\ reader.is_open /\ reader.pos <= Len(reader.lines)
      /\ reader.section \in ByTitle
      /\ lookup_get(lookup, TitleOf(reader.section, reader.lines[reader.pos])) = NULL)
     => /\ UNCHANGED <<ratingMap, history, skippedSongs, recentlyAdded>>
        /\ lastOp'.op = "load_line"
        /\ reader'.is_open /\ reader'.pos = reader.pos + 1
    ]_vars

\* The load has passed a line of one of the four sections that names a title no
\* loaded song has (the song was deleted in the session that wrote the file), and
\* has lines left to read.
C29_Witness ==
  /\ lastOp.op = "load_line" /\ lastOp.args[3] = "entry" /\ lastOp.args[1] \in ByTitle
  /\ lookup_get(lookup, TitleOf(lastOp.args[1], lastOp.args[2])) = NULL
  /\ tally.deleted
  /\ reader.is_open /\ reader.pos <= Len(reader.lines)


\* The last step was the menu's add; the last step was the load of a [SONGS] line.
AddedSong == lastOp.op = "add"
LoadedSong == lastOp.op = "load_line" /\ lastOp.args[1] = SONGS /\ lastOp.args[3] = "entry"

\* C30 as stated: after every insertion of a song into the catalog, by the menu's
\* add or by a [SONGS] line of the load, the title index returns the new song for
\* its title and the new song is at the front of the addition window.
C30_InsertionRegistersAndTouches ==
  (AddedSong \/ LoadedSong) =>
    /\ lookup_get(lookup, mem[lastOp.ret].title) = lastOp.ret
    /\ recentlyAdded # <<>> /\ recentlyAdded[1] = lastOp.ret

\* C30, amended: the menu's add appends the song, registers it in the title index
\* and touches it to the front of the addition window; a [SONGS] line of the load
\* appends the song and registers it in the title index, and leaves the addition
\* window as it was (the window is rebuilt by the [RECENT_ADDED] lines).
C30_AddTouchesLoadRegisters ==
  [][/\ lastOp'.op = "add" =>
          /\ get_all_songs([head |-> head', tail |-> tail', mem |-> mem', heap |-> heap'])
               = Append(get_all_songs(PL), lastOp'.ret)
          /\ lookup_get(lookup', lastOp'.args[1]) = lastOp'.ret
          /\ mem'[lastOp'.ret].title = lastOp'.args[1]
          /\ recentlyAdded' # <<>> /\ recentlyAdded'[1] = lastOp'.ret
     /\ (lastOp'.op = "load_line" /\ lastOp'.args[1] = SONGS /\ lastOp'.args[3] = "entry") =>
          /\ get_all_songs([head |-> head', tail |-> tail', mem |-> mem', heap |-> heap'])
               = Append(get_all_songs(PL), lastOp'.ret)
          /\ lookup_get(lookup', mem'[lastOp'.ret].title) = lastOp'.ret
          /\ recentlyAdded' = recentlyAdded
    ]_vars

\* The load has read the second [SONGS] line of a file: both songs are in the
\* catalog and in the title index, and the addition window is still empty.
C30_Witness ==
  /\ LoadedSong /\ Len(get_all_songs(PL)) = 2
  /\ Cardinality(DOMAIN lookup) = 2 /\ recentlyAdded = <<>>
  /\ Len(tally.session.songs) = 2


\* ---------------------------------------------- getRecentlyAddedByGenre on its own
\* getRecentlyAddedByGenre applied once, with every genre of GenreAsked and every
\* limit of GenreLimits, to the addition window of a session that added up to
\* MaxNodes songs of every assignment of Jazz and Rock: the last added is in front.
GenreAsked == {Jazz, Rock, LoFi}
GenreLimits == 0..MaxNodes

GenreInit ==
  /\ history = <<>> /\ ratingMap = <<>> /\ lookup = <<>> /\ playCounts = <<>>
  /\ skippedSongs = <<>>
  /\ currentIndex = NewPlayer.currentIndex /\ isPlaying = NewPlayer.isPlaying
  /\ currentSong = NewPlayer.currentSong
  /\ file = NoFile /\ uaf = FALSE /\ titleClash = FALSE /\ reader = NoReader /\ steps = 0
  /\ touchTime = NoTouchTime
  /\ lastOp = Op("start", <<>>, NULL)
  /\ \E n \in 0..MaxNodes :
       \E genre \in [1..n -> {Jazz, Rock}] :
         LET pl == Built(ListEmpty, 1, n, [i \in 1..n |-> i], genre)
         IN  /\ head = pl.head /\ tail = pl.tail /\ mem = pl.mem /\ heap = pl.heap
             /\ recentlyAdded = [i \in 1..n |-> n + 1 - i]
             /\ tally = Appended([i \in 1..n |-> i])

FilterByGenre ==
  /\ lastOp.op = "start"
  /\ \E genre \in GenreAsked, limit \in GenreLimits :
       lastOp' = Op("getRecentlyAddedByGenre", <<genre, limit>>,
                    getRecentlyAddedByGenre(recentlyAdded, [a \in DOMAIN mem |-> mem[a].genre], genre, limit))
  /\ steps' = steps + 1
  /\ UNCHANGED <<head, tail, mem, heap, history, ratingMap, lookup, playCounts, skippedSongs,
                 recentlyAdded, currentIndex, isPlaying, currentSong, file, uaf, touchTime,
                 titleClash, reader, tally>>

GenreNext == FilterByGenre

SpecGenre == GenreInit /\ [][GenreNext]_vars

\* The entries of the window w whose song has the genre, in the window's order.
Matching(w, m, genre) == SelectSeq(w, LAMBDA a : m[a].genre = genre)

\* C31: for every limit >= 0, getRecentlyAddedByGenre(genre, limit) returns the
\* first `limit` entries of the addition window that have the genre (all of them
\* when there are fewer), in the window's order: at most limit songs, all of the
\* window and of the genre, and no matching entry before a returned one left out.
C31_FilterReturnsFirstMatchesUpToLimit ==
  (lastOp.op = "getRecentlyAddedByGenre" /\ lastOp.args[2] >= 0) =>
    lastOp.ret = Prefix(Matching(recentlyAdded, mem, lastOp.args[1]), lastOp.args[2])


\* ------------------------------------------------------------ isCalming on its own
\* isCalming applied once to every string of up to MaxGenreLen characters of
\* GenreChars and to the genres of OtherGenres.
MaxGenreLen == 5
GenreChars == {"L", "l", "o", "F", "f", "i", "-"}
OtherGenres ==
  {Jazz, JAZZ, Rock, <<"j", "a", "z", "z">>, <<"J", "a", "z">>,
   <<"C", "l", "a", "s", "s", "i", "c", "a", "l">>, <<"c", "L", "A", "S", "S", "I", "C", "A", "L">>,
   <<"A", "m", "b", "i", "e", "n", "t">>, <<"a", "m", "b", "i", "e", "n", "t">>,
   <<"C", "h", "i", "l", "l">>, <<"C", "H", "I", "L", "L">>, <<"C", "h", "i", "l", "l", "y">>,
   <<"L", "o", "-", "F", "i", " ">>, <<"L", "o", " ", "F", "i">>}
GenreStrings == UNION {[1..n -> GenreChars] : n \in 0..MaxGenreLen} \cup OtherGenres

CalmingInit ==
  /\ head = NULL /\ tail = NULL /\ mem = [a \in ListAddr |-> NoSong] /\ heap = {}
  /\ history = <<>> /\ ratingMap = <<>> /\ lookup = <<>> /\ playCounts = <<>>
  /\ skippedSongs = <<>> /\ recentlyAdded = <<>>
  /\ currentIndex = NewPlayer.currentIndex /\ isPlaying = NewPlayer.isPlaying
  /\ currentSong = NewPlayer.currentSong
  /\ file = NoFile /\ uaf = FALSE /\ titleClash = FALSE /\ reader = NoReader /\ steps = 0
  /\ touchTime = NoTouchTime
  /\ tally = Appended(<<>>)
  /\ \E genre \in GenreStrings : lastOp = Op("start", <<genre>>, NULL)

IsCalmingCall ==
  /\ lastOp.op = "start"
  /\ lastOp' = Op("isCalming", lastOp.args, isCalming(lastOp.args[1]))
  /\ steps' = steps + 1
  /\ UNCHANGED <<head, tail, mem, heap, history, ratingMap, lookup, playCounts, skippedSongs,
                 recentlyAdded, currentIndex, isPlaying, currentSong, file, uaf, touchTime,
                 titleClash, reader, tally>>

CalmingNext == IsCalmingCall

SpecCalming == CalmingInit /\ [][CalmingNext]_vars

\* Two characters are equal or the upper and the lower case of one letter.
SameLetter(c, d) == c = d \/ \E k \in 1..26 : {c, d} = {UpperCase[k], LowerCase[k]}

\* Two strings are equal when compared without regard to case.
EqualIgnoringCase(a, b) == Len(a) = Len(b) /\ \A i \in 1..Len(a) : SameLetter(a[i], b[i])

FiveGenres ==
  {<<"L", "o", "-", "F", "i">>, <<"J", "a", "z", "z">>,
   <<"C", "l", "a", "s", "s", "i", "c", "a", "l">>, <<"A", "m", "b", "i", "e", "n", "t">>,
   <<"C", "h", "i", "l", "l">>}

\* C32 as stated: isCalming(genre) is true exactly when genre equals, without
\* regard to case, one of Lo-Fi, Jazz, Classical, Ambient, Chill.
C32_CalmingIsOneOfFive ==
  lastOp.op = "isCalming" =>
    (lastOp.ret <=> \E g \in FiveGenres : EqualIgnoringCase(lastOp.args[1], g))

\* C32, amended: isCalming(genre) is true exactly when genre equals, without
\* regard to case, one of Lo-Fi, Jazz, Classical, Ambient, Chill or Lofi.
C32_CalmingIsOneOfSix ==
  lastOp.op = "isCalming" =>
    (lastOp.ret <=> \E g \in FiveGenres \cup {<<"L", "o", "f", "i">>} : EqualIgnoringCase(lastOp.args[1], g))

\* isCalming answered true for a spelling of Lo-Fi in mixed case that is none of
\* the strings of the list.
C32_Witness ==
  /\ lastOp.op = "isCalming" /\ lastOp.ret
  /\ lastOp.args[1] = <<"l", "o", "-", "f", "i">>


\* C33: with player calls interleaved with deletions, whenever playNext or
\* playPrevious has selected a song the player's index is a position of the
\* catalog (0..length-1) and nothing was read outside the snapshot (a read
\* through a null result ends the program), and the player's current song is a
\* song still in the catalog.
C33_PlayerStaysWithinCatalog ==
  /\ lastOp.op # "crash"
  /\ (lastOp.op \in {"playNext", "playPrevious"} /\ lastOp.args[1]) =>
       (currentIndex >= 0 /\ currentIndex < Len(get_all_songs(PL)))
  /\ currentSong # NULL => currentSong \in Range(get_all_songs(PL))


\* C34: after move_song(from_index, to_index), for any integer arguments, the
\* catalog holds exactly the songs it held before, each once, and the songs
\* other than one (the moved one) are in the same relative order as before; the
\* traversal from the tail agrees.
C34_MoveIsPermutation ==
  Moved =>
    /\ Len(Catalog) = Len(ListBefore) /\ NoDup(Catalog)
    /\ Range(Catalog) = Range(ListBefore)
    /\ heap = lastOp.ret.heap
    /\ \/ Catalog = ListBefore
       \/ \E t \in Range(ListBefore) : Without(Catalog, t) = Without(ListBefore, t)
    /\ CollectBack(mem, tail) = Reverse(Catalog)

\* move_song was called with a negative from_index and a to_index past the end,
\* on a playlist of at least three songs, and changed the order.
C34_Witness ==
  /\ Moved /\ FromIndex < 0 /\ ToIndex > Len(ListBefore)
  /\ Len(ListBefore) >= 3 /\ Catalog # ListBefore


\* -------------------------------------------- exit and a new start, from a session
\* The program is left and started again from a session that added the songs "a"
\* and "b" (artist "x", genre Rock, duration 200) and then either played them one
\* at a time in any order up to MaxHistory times, or skipped none, one or both in
\* either order and did or did not clear the addition window. tally.before holds the titles of
\* the history (oldest first) and of the two windows (front first) of that session.
MaxHistory == 6

ReloadSession ==
  add_song(add_song([head |-> NULL, tail |-> NULL, mem |-> [a \in PAddr |-> NoSong], heap |-> {}],
                    1, <<"a">>, <<"x">>, Rock, 200),
           2, <<"b">>, <<"x">>, Rock, 200)

\* The titles read through the Song* of a sequence.
TitlesOf(songs, m) == [i \in 1..Len(songs) |-> m[songs[i]].title]

\* The play counts after the plays of history h, one at a time.
RECURSIVE CountsOfPlays(_, _, _)
CountsOfPlays(h, i, m) ==
  IF i = 0 THEN <<>> ELSE IncCount(CountsOfPlays(h, i - 1, m), m[h[i]].title)

ReloadInit ==
  /\ head = ReloadSession.head /\ tail = ReloadSession.tail
  /\ mem = ReloadSession.mem /\ heap = ReloadSession.heap
  /\ lookup = lookup_add(lookup_add(<<>>, <<"a">>, 1), <<"b">>, 2)
  /\ ratingMap = <<>>
  /\ \/ /\ history \in UNION {[1..n -> {1, 2}] : n \in 0..MaxHistory}
        /\ skippedSongs = <<>>
        /\ recentlyAdded = addRecentSong(addRecentSong(<<>>, 1), 2)
     \/ /\ history = <<>>
        /\ skippedSongs \in {<<>>, <<1>>, <<2>>, <<1, 2>>, <<2, 1>>}
        /\ recentlyAdded \in {addRecentSong(addRecentSong(<<>>, 1), 2), clearRecentlyAdded(<<>>)}
  /\ playCounts = CountsOfPlays(history, Len(history), mem)
  /\ currentIndex = NewPlayer.currentIndex /\ isPlaying = NewPlayer.isPlaying
  /\ currentSong = NewPlayer.currentSong
  /\ file = save_all_data(get_all_songs(PL), mem, playCounts, ratingMap, history, skippedSongs,
                          recentlyAdded, [a \in PAddr |-> mem[a].title])
  /\ uaf = FALSE /\ titleClash = FALSE /\ reader = NoReader /\ steps = 0
  /\ touchTime = NoTouchTime
  /\ lastOp = Op("start", <<>>, NULL)
  /\ tally = [phase |-> "session", deleted |-> FALSE, session |-> NULL,
              before |-> [history |-> TitlesOf(history, mem),
                          skipped |-> TitlesOf(skippedSongs, mem),
                          added |-> TitlesOf(recentlyAdded, mem)]]

ReloadNext == Restart \/ LoadLine \/ LoadEnd

SpecReload == ReloadInit /\ [][ReloadNext]_vars

\* C35: after the session is saved and loaded again, the skip window and the
\* addition window list the songs of the same titles in the same order, most
\* recent first, as before the save.
C35_WindowOrderSurvivesRoundTrip ==
  tally.phase = "loaded" =>
    /\ TitlesOf(skippedSongs, mem) = tally.before.skipped
    /\ TitlesOf(recentlyAdded, mem) = tally.before.added

\* C36: after the session is saved and loaded again, the history stack holds the
\* songs of the same titles in the same order as before the save, whatever its
\* length, so that undo returns the song it would have returned.
C36_HistorySurvivesRoundTrip ==
  tally.phase = "loaded" =>
    /\ TitlesOf(history, mem) = tally.before.history
    /\ (history # <<>> => mem[undo_last_play(history).song].title
                            = tally.before.history[Len(tally.before.history)])


\* C37: search_by_rating changes nothing: for any rating, used or not, the rating
\* map after the call is the map before it, and get_song_count_by_rating gives the
\* same keys with the same counts.
C37_SearchIsReadOnly ==
  lastOp.op = "search_by_rating" =>
    /\ ratingMap = lastOp.ret
    /\ get_song_count_by_rating(ratingMap) = get_song_count_by_rating(lastOp.ret)


\* --------------------------------------------- skips, clears and the selector
\* A catalog of MAX_SKIPPED + 2 songs, those of a set of CalmSets being Jazz and
\* the others Rock, song 1 played 0, 1 or 2 times and every other song once; the
\* skip window empty or filled by skipping songs 1, 2, ... in that order (song 1
\* is the least recent). Then up to MaxSkipOps of: skip one of SkipChoice, clear
\* the skip window, and at last the selection of auto-replay. tally logs the
\* songs skipped since the window was last cleared, in order.
MaxSkipOps == 3
SkipCatalog == 1..(MAX_SKIPPED + 2)
SkipChoice == {1, 2, MAX_SKIPPED + 1, MAX_SKIPPED + 2}
CalmSets == SUBSET {1, 2, 3, MAX_SKIPPED + 2}

RECURSIVE SkipBuilt(_, _, _)
SkipBuilt(pl, i, calm) ==
  IF i > MAX_SKIPPED + 2 THEN pl
  ELSE SkipBuilt(add_song(pl, i, <<"t", i>>, "x", IF i \in calm THEN Jazz ELSE Rock, 200), i + 1, calm)

\* The window after songs 1..k were skipped in that order.
RECURSIVE SkippedUpTo(_)
SkippedUpTo(k) == IF k = 0 THEN <<>> ELSE addSkippedSong(SkippedUpTo(k - 1), k)

SkipInit ==
  /\ history = <<>> /\ ratingMap = <<>> /\ lookup = <<>> /\ recentlyAdded = <<>>
  /\ currentIndex = NewPlayer.currentIndex /\ isPlaying = NewPlayer.isPlaying
  /\ currentSong = NewPlayer.currentSong
  /\ file = NoFile /\ uaf = FALSE /\ titleClash = FALSE /\ reader = NoReader /\ steps = 0
  /\ touchTime = NoTouchTime
  /\ lastOp = Op("start", <<>>, NULL)
  /\ \E calm \in CalmSets, first \in 0..2, k \in {0, MAX_SKIPPED - 1, MAX_SKIPPED} :
       LET pl == SkipBuilt([head |-> NULL, tail |-> NULL, mem |-> [a \in SkipCatalog |-> NoSong], heap |-> {}],
                           1, calm)
       IN  /\ head = pl.head /\ tail = pl.tail /\ mem = pl.mem /\ heap = pl.heap
           /\ playCounts = [t \in {<<"t", i>> : i \in IF first = 0 THEN SkipCatalog \ {1} ELSE SkipCatalog} |->
                              IF t = <<"t", 1>> THEN first ELSE 1]
           /\ skippedSongs = SkippedUpTo(k)
           /\ tally = [skips |-> [i \in 1..k |-> i], cleared |-> FALSE]

SkipFrame ==
  UNCHANGED <<head, tail, mem, heap, history, ratingMap, lookup, playCounts, recentlyAdded,
              currentIndex, isPlaying, currentSong, file, uaf, touchTime, titleClash, reader>>

SkipOne ==
  /\ steps < MaxSkipOps /\ lastOp.op # "select"
  /\ \E song \in SkipChoice :
       /\ skippedSongs' = addSkippedSong(skippedSongs, song)
       /\ lastOp' = Op("addSkippedSong", <<song>>, NULL)
       /\ tally' = [tally EXCEPT !.skips = Append(@, song)]
  /\ steps' = steps + 1
  /\ SkipFrame

SkipClear ==
  /\ steps < MaxSkipOps /\ lastOp.op # "select"
  /\ skippedSongs' = clearSkippedHistory(skippedSongs)
  /\ lastOp' = Op("clearSkippedHistory", <<>>, NULL)
  /\ tally' = [skips |-> <<>>, cleared |-> TRUE]
  /\ steps' = steps + 1
  /\ SkipFrame

SkipSelect ==
  /\ lastOp.op # "select"
  /\ lastOp' = Op("select", <<>>, getTop3CalmingSongs(get_all_songs(PL), mem, playCounts, skippedSongs))
  /\ steps' = steps + 1
  /\ UNCHANGED <<skippedSongs, tally>>
  /\ SkipFrame

SkipNext == SkipOne \/ SkipClear \/ SkipSelect

SpecSkip == SkipInit /\ [][SkipNext]_vars

\* By the log of skips, the song is among the MAX_SKIPPED distinct songs skipped
\* most recently since the last clear.
StillSkipped(a) ==
  /\ a \in Range(tally.skips)
  /\ LET last == CHOOSE i \in 1..Len(tally.skips) :
                   tally.skips[i] = a /\ \A j \in (i + 1)..Len(tally.skips) : tally.skips[j] # a
     IN  Cardinality({tally.skips[j] : j \in (last + 1)..Len(tally.skips)}) < MAX_SKIPPED

\* C38: a calming song of the catalog that is not among the MAX_SKIPPED distinct
\* songs skipped most recently since the last clear (it was never skipped, or
\* MAX_SKIPPED other songs were skipped after it, or the window was cleared) is a
\* candidate of the selection: it is selected whenever fewer than TOP_N other
\* such songs have been played at least as often.
C38_EvictedOrClearedIsCandidateAgain ==
  Selected =>
    \A a \in Range(Catalog) :
      (/\ isCalming(mem[a].genre) /\ ~StillSkipped(a)
       /\ Cardinality({b \in Range(Catalog) \ {a} :
                         isCalming(mem[b].genre) /\ ~StillSkipped(b) /\ Plays(b) >= Plays(a)}) < TOP_N)
        => a \in Range(Result)

\* Song 1 was skipped, MAX_SKIPPED other songs were skipped after it and the
\* window was never cleared; the selection that followed returned song 1.
C38_Witness ==
  /\ Selected /\ ~tally.cleared
  /\ 1 \in Range(tally.skips) /\ ~StillSkipped(1)
  /\ Len(skippedSongs) = MAX_SKIPPED
  /\ 1 \in Range(Result)


\* ------------------------------------------------ PlaybackHistory on its own
\* Up to MaxHistoryOps pushes, undos and reads of the recently played list on a
\* history that starts empty. lastOp.args of a read holds n, lastOp.ret what the
\* undo or the read returned.
MaxHistoryOps == 5
PlayedSongs == 1..2
RecentAsked == {0, 2, RECENT_PLAYED_N}

HistoryInit ==
  /\ head = NULL /\ tail = NULL /\ mem = [a \in ListAddr |-> NoSong] /\ heap = {}
  /\ history = <<>> /\ ratingMap = <<>> /\ lookup = <<>> /\ playCounts = <<>>
  /\ skippedSongs = <<>> /\ recentlyAdded = <<>>
  /\ currentIndex = NewPlayer.currentIndex /\ isPlaying = NewPlayer.isPlaying
  /\ currentSong = NewPlayer.currentSong
  /\ file = NoFile /\ uaf = FALSE /\ titleClash = FALSE /\ reader = NoReader /\ steps = 0
  /\ touchTime = NoTouchTime
  /\ lastOp = Op("start", <<>>, NULL)
  /\ tally = 0

HistoryFrame ==
  UNCHANGED <<head, tail, mem, heap, ratingMap, lookup, playCounts, skippedSongs, recentlyAdded,
              currentIndex, isPlaying, currentSong, file, uaf, touchTime, titleClash, reader, tally>>

HistoryAdd ==
  /\ steps < MaxHistoryOps
  /\ \E song \in PlayedSongs :
       /\ history' = ph_add(history, song)
       /\ lastOp' = Op("add", <<song>>, NULL)
  /\ steps' = steps + 1
  /\ HistoryFrame

HistoryUndo ==
  /\ steps < MaxHistoryOps
  /\ LET r == undo_last_play(history)
     IN  /\ history' = r.history
         /\ lastOp' = Op("undo_last_play", <<>>, r.song)
  /\ steps' = steps + 1
  /\ HistoryFrame

\* The read works on temp, a copy of the stack.
HistoryRecent ==
  /\ steps < MaxHistoryOps
  /\ \E n \in RecentAsked :
       lastOp' = Op("get_recently_played", <<n>>, get_recently_played(history, n))
  /\ history' = history
  /\ steps' = steps + 1
  /\ HistoryFrame

HistoryNext == HistoryAdd \/ HistoryUndo \/ HistoryRecent

SpecHistory == HistoryInit /\ [][HistoryNext]_vars

\* The entry of the history that is i-th from the most recent push.
FromTop(h, i) == h[Len(h) + 1 - i]

\* C39: undo of the last play on a history with entries removes the entry pushed
\* most recently and returns it, the entries under it staying as they were and in
\* order; on an empty history it returns NULL and the history stays empty. A read
\* of the recently played list with n leaves the history as it was and returns
\* min(n, size) entries, the most recent first.
C39_UndoPopsMostRecentReadLeavesHistory ==
  [][/\ lastOp'.op = "undo_last_play" =>
          IF history = <<>>
          THEN lastOp'.ret = NULL /\ history' = <<>>
          ELSE /\ lastOp'.ret = FromTop(history, 1)
               /\ Len(history') = Len(history) - 1
               /\ \A i \in 1..Len(history') : history'[i] = history[i]
     /\ lastOp'.op = "get_recently_played" =>
          LET n == lastOp'.args[1]
              recent == lastOp'.ret
          IN  /\ history' = history
              /\ Len(recent) = IF n < Len(history) THEN n ELSE Len(history)
              /\ \A i \in 1..Len(recent) : recent[i] = FromTop(history, i)
    ]_vars

\* An undo has returned a song and has left under it an entry of another song.
C39_Witness ==
  /\ lastOp.op = "undo_last_play" /\ lastOp.ret # NULL
  /\ history # <<>> /\ FromTop(history, 1) # lastOp.ret


====
